---- MODULE Spec2Model ----
(***************************************************************************)
(* Verification model of the travel-buddy repository:                      *)
(*   - RateLimiter.wait_if_needed        (services/rate_limiter.py)        *)
(*   - GooglePlacesService.search_places (services/google_places_service)  *)
(*   - ContextManager                    (services/context_manager.py)     *)
(*   - follow-up / search / clear handlers over the session history        *)
(*   - AzureOpenAIService.generate_travel_recommendations                  *)
(* Time is counted in ticks of 1/TicksPerSecond second.                    *)
(***************************************************************************)
EXTENDS Integers, Sequences, FiniteSets, TLC

\* ------------------------------------------------------------------------
\* Bounds of the model
\* ------------------------------------------------------------------------
TicksPerSecond == 2
MaxPerSecond == 2
MaxPerDay == 3
NumThreads == 2
MaxCalls == 6
MaxAdvances == 2
MaxRecords == 25
MaxFailures == 3
FreeInputs == 2
MaxRequests == 2
MaxSearches == 2
MaxRankLen == 4
MaxFilterLen == 3
MaxScoreCalls == 2
MaxContext == 12
MaxTokenCalls == 2
MaxEquivLen == 2

\* ------------------------------------------------------------------------
\* Generic helpers
\* ------------------------------------------------------------------------
Min(a, b) == IF a <= b THEN a ELSE b

\* Python s[-k:] for k > 0
LastK(s, k) == SubSeq(s, Len(s) - Min(k, Len(s)) + 1, Len(s))

\* Python s[:k]
FirstK(s, k) == SubSeq(s, 1, Min(k, Len(s)))

\* ------------------------------------------------------------------------
\* State
\* ------------------------------------------------------------------------
VARIABLES
    \* --- RateLimiter ---
    now,                 \* the wall clock, time.time(), in ticks
    requests_per_second, \* deque of timestamps
    requests_per_day,    \* deque of timestamps
    daily_reset_time,
    lock,                \* 0 when free, else the thread holding it
    pc,                  \* position of each thread inside wait_if_needed
    current_time,        \* each thread's local current_time
    wait_time,           \* each thread's local wait_time
    slept,               \* ticks each thread slept in its present call
    asked,               \* ticks each thread asked time.sleep for in its present call
    calls,               \* number of wait_if_needed calls started
    advances,            \* number of clock steps taken by the environment
    returns,             \* log of returned calls: wall time and time slept
    \* --- session state and ContextManager ---
    variant,             \* which revision of the UI layer runs: app.py or handlers/
    conversation_history,\* st.session_state.conversation_history
    search_results,      \* st.session_state.search_results, NoResults when None
    processing_question, \* st.session_state.processing_question
    recorded,            \* messages passed to add_message since the last clear_history
    context_out,         \* the last value returned by get_context_messages
    writers,             \* the APIs that have written conversation_history
    failures,            \* number of follow-ups that ended in the except branch
    last_op,             \* the last handler that ran, and whether it called the LLM
    \* --- AzureOpenAIService ---
    token_data,          \* the module-level token cache: access_token, expires_at
    client_key,          \* the api_key self.client was built with
    gen_pc,              \* position inside generate_travel_recommendations
    attempt,             \* the loop variable of the retry loop
    gen_error,           \* str(e) of the exception being handled
    gen_errors,          \* the errors raised by chat.completions.create in this request
    llm_calls,           \* chat.completions.create calls of this request
    token_posts,         \* POSTs to the OAuth endpoint in this request
    forced_refreshes,    \* refreshes forced by the except branch in this request
    gen_result,          \* the text returned by the request
    requests,            \* number of requests started
    \* --- GooglePlacesService.search_places ---
    search_pc,           \* position inside search_places
    place_type,          \* the category argument of the running search
    query_index,         \* index of the query term the loop is at
    all_results,         \* places accumulated over the query terms
    nearby_log,          \* the places_nearby calls sent to the provider
    geocode_result,      \* how the geocode call of the running search ended
    deduplicated,        \* list(unique_results.values()) of the last search
    filtered_results,    \* filtered_results of the last search
    sorted_results,      \* sorted_results of the last search
    search_out,          \* what the last search returned
    searches,            \* number of searches started
    \* --- ranking and filtering, called on their own ---
    rank_pc,             \* "collect" until the ranker is called, then "sorted"
    rank_in,             \* the argument of _sort_places_by_quality
    rank_out,            \* its result
    rank_scores,         \* _calculate_score of each place of rank_in
    filter_pc,           \* "collect" until the filter is called, then "filtered"
    filter_category,     \* the category argument of _filter_by_category
    filter_in,           \* the places argument of _filter_by_category
    filter_out,          \* its result
    \* --- _calculate_score called on its own ---
    score_in,            \* the places _calculate_score was called with
    score_out,           \* the score GooglePlacesService._calculate_score returned
    score_ranker,        \* the score PlaceRanker.calculate_score returned
    \* --- the messages of generate_travel_recommendations ---
    context_history,     \* the context_history argument of the running request
    gen_messages,        \* the local list messages
    sent,                \* the messages argument of each chat.completions.create call
    \* --- _get_access_token called by several threads ---
    token_lock,          \* self._token_lock: 0 when free, else the thread holding it
    token_pc,            \* position of each thread inside _get_access_token
    token_seen,          \* the cached token, and whether it was expired, when each thread called
    token_checked,       \* the cache and the clock at each thread's _is_token_expired
    token_posted,        \* the expires_in each thread's POST returned, 0 without one
    token_calls,         \* number of _get_access_token calls started
    token_log,           \* the finished calls, in the order they released the lock
    \* --- the standalone components beside the copies in GooglePlacesService ---
    equiv_places,        \* the place list both copies are called with
    equiv_call,          \* which pair was called last: "filter", "sort", "queries"
    equiv_category,      \* the category of that call
    equiv_inline,        \* what the copy in GooglePlacesService returned
    equiv_standalone     \* what the standalone component returned

rlVars == <<now, requests_per_second, requests_per_day, daily_reset_time,
            lock, pc, current_time, wait_time, slept, asked, calls, advances,
            returns>>

appVars == <<variant, conversation_history, search_results, processing_question,
             recorded, context_out, writers, failures, last_op>>

llmVars == <<token_data, client_key, gen_pc, attempt, gen_error, gen_errors,
             llm_calls, token_posts, forced_refreshes, gen_result, requests>>

rankVars == <<rank_pc, rank_in, rank_out, rank_scores>>

filterVars == <<filter_pc, filter_category, filter_in, filter_out>>

pureVars == <<rankVars, filterVars>>

pipeVars == <<search_pc, place_type, geocode_result, query_index, all_results,
              nearby_log, deduplicated, filtered_results, sorted_results,
              search_out, searches>>

searchVars == <<pipeVars, pureVars>>

scoreVars == <<score_in, score_out, score_ranker>>

promptVars == <<context_history, gen_messages, sent>>

tokenVars == <<token_lock, token_pc, token_seen, token_checked, token_posted,
               token_calls, token_log>>

equivVars == <<equiv_places, equiv_call, equiv_category, equiv_inline,
               equiv_standalone>>

otherVars == <<scoreVars, promptVars, tokenVars, equivVars>>

vars == <<rlVars, appVars, llmVars, searchVars, otherVars>>

\* ------------------------------------------------------------------------
\* RateLimiter (src/services/rate_limiter.py)
\* ------------------------------------------------------------------------
Second == 1 * TicksPerSecond

Day == 86400 * TicksPerSecond

Threads == 1..NumThreads

\* steps by which the environment lets the clock advance
Deltas == {1, Second, Day - Second}

\* time.sleep(w) lasts at least w; it may overshoot
Oversleep == {0, 1}

\* while q and current_time - q[0] >= window: q.popleft()
RECURSIVE Evict(_, _, _)
Evict(q, t, window) ==
    IF q # <<>> /\ t - Head(q) >= window
    THEN Evict(Tail(q), t, window)
    ELSE q

RLInit ==
    /\ now = 0
    /\ requests_per_second = <<>>
    /\ requests_per_day = <<>>
    /\ daily_reset_time = 0 + Day
    /\ lock = 0
    /\ pc = [t \in Threads |-> "idle"]
    /\ current_time = [t \in Threads |-> 0]
    /\ wait_time = [t \in Threads |-> 0]
    /\ slept = [t \in Threads |-> 0]
    /\ asked = [t \in Threads |-> 0]
    /\ calls = 0
    /\ advances = 0
    /\ returns = <<>>

\* the environment: time passes.  The statements executed under the lock
\* take no time of their own; only time.sleep lets the clock move while the
\* lock is held.
Advance ==
    /\ lock = 0
    /\ advances < MaxAdvances
    /\ advances' = advances + 1
    /\ \E d \in Deltas : now' = now + d
    /\ UNCHANGED <<requests_per_second, requests_per_day, daily_reset_time,
                   lock, pc, current_time, wait_time, slept, asked, calls,
                   returns>>

\* a thread calls wait_if_needed and blocks on `with self.lock`
CallWait(t) ==
    /\ pc[t] = "idle"
    /\ calls < MaxCalls
    /\ calls' = calls + 1
    /\ pc' = [pc EXCEPT ![t] = "blocked"]
    /\ UNCHANGED <<now, requests_per_second, requests_per_day, slept, asked,
                   daily_reset_time, lock, current_time, wait_time, advances, returns>>

\* lines 21-40: take the lock, read the clock, reset, evict, test the
\* daily limit
Enter(t) ==
    /\ pc[t] = "blocked"
    /\ lock = 0
    /\ lock' = t
    /\ current_time' = [current_time EXCEPT ![t] = now]
    /\ LET reset == now >= daily_reset_time
           dayq0 == IF reset THEN <<>> ELSE requests_per_day
           secq  == Evict(requests_per_second, now, Second)
           dayq  == Evict(dayq0, now, Day)
       IN /\ daily_reset_time' = IF reset THEN now + Day ELSE daily_reset_time
          /\ requests_per_second' = secq
          /\ requests_per_day' = dayq
          /\ IF Len(dayq) >= MaxPerDay
             THEN /\ wait_time' = [wait_time EXCEPT ![t] = Day - (now - Head(dayq))]
                  /\ pc' = [pc EXCEPT ![t] = "sleep_day"]
             ELSE /\ wait_time' = wait_time
                  /\ pc' = [pc EXCEPT ![t] = "check_second"]
    /\ UNCHANGED <<now, slept, asked, calls, advances, returns>>

\* lines 41-43: time.sleep(wait_time), clear the day queue, set the reset
\* time from a fresh clock reading; current_time is not read again
SleepDay(t) ==
    /\ pc[t] = "sleep_day"
    /\ \E o \in Oversleep :
          /\ now' = now + wait_time[t] + o
          /\ slept' = [slept EXCEPT ![t] = @ + wait_time[t] + o]
    /\ asked' = [asked EXCEPT ![t] = @ + wait_time[t]]
    /\ requests_per_day' = <<>>
    /\ daily_reset_time' = now' + Day
    /\ pc' = [pc EXCEPT ![t] = "check_second"]
    /\ UNCHANGED <<requests_per_second, lock, current_time, wait_time,
                   calls, advances, returns>>

\* a slip of lines 54-55: the request is not recorded in the day queue
Record_second_only(t, ct, wall, sl, ak) ==
    /\ requests_per_second' = Append(requests_per_second, ct)
    /\ requests_per_day' = requests_per_day
    /\ returns' = Append(returns, [at |-> wall, slept |-> sl, asked |-> ak])
    /\ lock' = 0
    /\ pc' = [pc EXCEPT ![t] = "idle"]
    /\ current_time' = [current_time EXCEPT ![t] = 0]
    /\ wait_time' = [wait_time EXCEPT ![t] = 0]
    /\ slept' = [slept EXCEPT ![t] = 0]
    /\ asked' = [asked EXCEPT ![t] = 0]

\* lines 53-55 and the release of the lock
Record(t, ct, wall, sl, ak) ==
    /\ requests_per_second' = Append(requests_per_second, ct)
    /\ requests_per_day' = Append(requests_per_day, ct)
    /\ returns' = Append(returns, [at |-> wall, slept |-> sl, asked |-> ak])
    /\ lock' = 0
    /\ pc' = [pc EXCEPT ![t] = "idle"]
    /\ current_time' = [current_time EXCEPT ![t] = 0]
    /\ wait_time' = [wait_time EXCEPT ![t] = 0]
    /\ slept' = [slept EXCEPT ![t] = 0]
    /\ asked' = [asked EXCEPT ![t] = 0]

\* a slip of line 46: the comparison is strict
second_window_full_strict(queue) ==
    Len(queue) > MaxPerSecond

\* line 46: len(self.requests_per_second) >= self.max_requests_per_second
second_window_full(queue) ==
    Len(queue) >= MaxPerSecond

\* lines 45-55: test the per-second limit; without a sleep the request is
\* recorded with the current_time read at line 22
CheckSecond(t) ==
    /\ pc[t] = "check_second"
    /\ LET full == second_window_full(requests_per_second)
           w    == IF full THEN Second - (current_time[t] - Head(requests_per_second))
                           ELSE 0
       IN IF full /\ w > 0
          THEN /\ wait_time' = [wait_time EXCEPT ![t] = w]
               /\ pc' = [pc EXCEPT ![t] = "sleep_second"]
               /\ UNCHANGED <<requests_per_second, requests_per_day, lock,
                              returns, current_time, slept, asked>>
          ELSE Record(t, current_time[t], now, slept[t], asked[t])
    /\ UNCHANGED <<now, daily_reset_time, calls, advances>>

\* lines 50-55: time.sleep(wait_time); current_time = time.time(); record
SleepSecond(t) ==
    /\ pc[t] = "sleep_second"
    /\ \E o \in Oversleep :
          /\ now' = now + wait_time[t] + o
          /\ Record(t, now', now', slept[t] + wait_time[t] + o,
                    asked[t] + wait_time[t])
    /\ UNCHANGED <<daily_reset_time, calls, advances>>

NextRL ==
    \/ Advance /\ UNCHANGED <<appVars, llmVars, searchVars, otherVars>>
    \/ \E t \in Threads : CallWait(t) /\ UNCHANGED <<appVars, llmVars, searchVars, otherVars>>
    \/ \E t \in Threads : Enter(t) /\ UNCHANGED <<appVars, llmVars, searchVars, otherVars>>
    \/ \E t \in Threads : SleepDay(t) /\ UNCHANGED <<appVars, llmVars, searchVars, otherVars>>
    \/ \E t \in Threads : CheckSecond(t) /\ UNCHANGED <<appVars, llmVars, searchVars, otherVars>>
    \/ \E t \in Threads : SleepSecond(t) /\ UNCHANGED <<appVars, llmVars, searchVars, otherVars>>

\* the steps of thread t inside wait_if_needed
ThreadStep(t) ==
    /\ Enter(t) \/ SleepDay(t) \/ CheckSecond(t) \/ SleepSecond(t)
    /\ UNCHANGED <<appVars, llmVars, searchVars, otherVars>>

\* a thread that can run is run in the end, and a thread waiting for a lock
\* that stays free gets it; threading.Lock promises no more than that
RLFairness == \A t \in Threads : WF_vars(ThreadStep(t))


\* ------------------------------------------------------------------------
\* Text.  A string is a sequence of characters, so that str.strip and
\* str.lower are computed and not assumed.
\* ------------------------------------------------------------------------
IsSpace(c) == c = " "

\* str.strip()
RECURSIVE LStrip(_)
LStrip(s) == IF s # <<>> /\ IsSpace(Head(s)) THEN LStrip(Tail(s)) ELSE s

RECURSIVE RStrip(_)
RStrip(s) ==
    IF s # <<>> /\ IsSpace(s[Len(s)]) THEN RStrip(SubSeq(s, 1, Len(s) - 1)) ELSE s

Strip(s) == RStrip(LStrip(s))

UpperCase == << "A", "B", "C", "D", "E", "F", "G", "H", "I", "J", "K", "L", "M",
             "N", "O", "P", "Q", "R", "S", "T", "U", "V", "W", "X", "Y", "Z" >>

LowerCase == << "a", "b", "c", "d", "e", "f", "g", "h", "i", "j", "k", "l", "m",
             "n", "o", "p", "q", "r", "s", "t", "u", "v", "w", "x", "y", "z" >>

\* str.lower() of one character
LowerChar(c) ==
    IF \E i \in DOMAIN UpperCase : UpperCase[i] = c
    THEN LowerCase[CHOOSE i \in DOMAIN UpperCase : UpperCase[i] = c]
    ELSE c

Lower(s) == [i \in DOMAIN s |-> LowerChar(s[i])]

\* Python `sub in s` on strings
Contains(s, sub) ==
    \E i \in 0..(Len(s) - Len(sub)) : SubSeq(s, i + 1, i + Len(sub)) = sub

\* ------------------------------------------------------------------------
\* ContextManager (src/services/context_manager.py)
\* ------------------------------------------------------------------------
HistoryLimit == 20

ContextSlice == 10

Roles == {"user", "assistant"}

\* the dict built by add_message: role, content, timestamp, metadata
\* (`metadata or {}`); it has no id
ContextMessage(role, content, metadata) ==
    [role |-> role, content |-> content, id |-> "",
     metadata |-> IF metadata = "None" THEN "{}" ELSE metadata]

\* the dicts built by the session layer: role, content, timestamp, id
SessionMessage(role, content, id) ==
    [role |-> role, content |-> content, id |-> id, metadata |-> "absent"]

\* a slip of add_message: the list is never cut
add_message_without_cap(h, role, content, metadata) ==
    Append(h, ContextMessage(role, content, metadata))

\* a slip of add_message: the cap keeps the oldest 20 messages
add_message_keeps_oldest(h, role, content, metadata) ==
    LET h1 == Append(h, ContextMessage(role, content, metadata))
    IN IF Len(h1) > HistoryLimit THEN FirstK(h1, HistoryLimit) ELSE h1

\* add_message, as a function of the list it appends to
add_message(h, role, content, metadata) ==
    LET h1 == Append(h, ContextMessage(role, content, metadata))
    IN IF Len(h1) > HistoryLimit THEN LastK(h1, HistoryLimit) ELSE h1

\* a slip of get_context_messages: the slice is taken from the front
get_context_messages_from_front(h) ==
    LET w == FirstK(h, ContextSlice)
    IN [i \in DOMAIN w |-> [role |-> w[i].role, content |-> w[i].content]]

\* get_context_messages
get_context_messages(h) ==
    LET w == LastK(h, ContextSlice)
    IN [i \in DOMAIN w |-> [role |-> w[i].role, content |-> w[i].content]]

\* clear_history
clear_history(h) == <<>>

\* The callers of the repository record a user message, then the assistant's
\* answer.  The first FreeInputs records of a log are drawn freely; the k-th
\* record carries content k, which tells the records apart.
CallerRole(k) == IF k % 2 = 1 THEN "user" ELSE "assistant"

RecordInputs(k) ==
    IF k <= FreeInputs
    THEN [role : Roles, metadata : {"None", "search"}]
    ELSE {[role |-> CallerRole(k), metadata |-> "None"]}

CtxAddMessage ==
    /\ Len(recorded) < MaxRecords
    /\ \E inp \in RecordInputs(Len(recorded) + 1) :
          LET k == Len(recorded) + 1
          IN /\ conversation_history' =
                    add_message(conversation_history, inp.role, k, inp.metadata)
             /\ recorded' = Append(recorded, ContextMessage(inp.role, k, inp.metadata))
    /\ last_op' = [kind |-> "add_message", question |-> <<>>, llm |-> FALSE]
    /\ UNCHANGED <<variant, search_results, processing_question, context_out,
                   writers, failures>>

CtxClearHistory ==
    /\ conversation_history' = clear_history(conversation_history)
    /\ recorded' = <<>>
    /\ last_op' = [kind |-> "clear_history", question |-> <<>>, llm |-> FALSE]
    /\ UNCHANGED <<variant, search_results, processing_question, context_out,
                   writers, failures>>

CtxGetContext ==
    /\ context_out' = get_context_messages(conversation_history)
    /\ last_op' = [kind |-> "get_context_messages", question |-> <<>>, llm |-> FALSE]
    /\ UNCHANGED <<variant, conversation_history, search_results,
                   processing_question, recorded, writers, failures>>

NextCtx ==
    \/ CtxAddMessage /\ UNCHANGED <<rlVars, llmVars, searchVars, otherVars>>
    \/ CtxClearHistory /\ UNCHANGED <<rlVars, llmVars, searchVars, otherVars>>
    \/ CtxGetContext /\ UNCHANGED <<rlVars, llmVars, searchVars, otherVars>>

\* ------------------------------------------------------------------------
\* The UI layer over st.session_state: app.py, and its later split into
\* handlers/ and utils/session_manager.py.  Both revisions are in the
\* repository; `variant` says which one runs.
\* ------------------------------------------------------------------------
\* st.session_state.search_results = None
NoResults == <<>>

\* f"Show me the best {query_type} in {location}"
UserQuery == <<"S", "h", "o", "w", " ", "U">>

\* what the user may type into the chat form
TypedQuestions ==
    { <<" ", "s", "h", "o", "w", " ", "u">>,
      <<"Y", "o">>,
      <<"y", "o", " ">>,
      <<" ">> }

\* the texts generate_travel_recommendations may return
Responses == { <<"o", "k">> }

\* f"Sorry, I encountered an error while processing your question: {e}"
ErrorMessage == <<"e", "r", "r">>

DuplicateScanHandlers == 4

DuplicateScanApp == 2

\* ChatHandler._is_duplicate_question (scan = 4) and the check inlined in
\* app.py handle_follow_up_question (scan = 2)
IsDuplicateQuestion(h, question, scan) ==
    /\ Len(h) >= 2
    /\ \E i \in DOMAIN LastK(h, scan) :
          LET msg == LastK(h, scan)[i]
          IN /\ msg.role = "user"
             /\ Lower(Strip(msg.content)) = Lower(Strip(question))

\* SessionManager.add_conversation_messages / list.extend
extend(h, messages) == h \o messages

\* SessionManager.clear_conversation_history(keep_initial_search=True),
\* utils.session_state.reset_conversation_history, app.py lines 429-432
reset_conversation_history(h) == IF Len(h) > 2 THEN FirstK(h, 2) ELSE <<>>

SessionWriter == IF variant = "handlers" THEN "SessionManager" ELSE "app"

\* SearchHandler.handle_search / the search block of app.py main
HandleSearch ==
    /\ \E found \in BOOLEAN, resp \in Responses :
          IF found
          THEN /\ context_out' = get_context_messages(conversation_history)
               /\ conversation_history' =
                     << SessionMessage("user", UserQuery, "search_user"),
                        SessionMessage("assistant", resp, "search_assistant") >>
               /\ search_results' = <<[ai_response |-> resp]>>
               /\ processing_question' = FALSE
               /\ writers' = writers \cup {"ContextManager", SessionWriter}
               /\ last_op' = [kind |-> "search", question |-> UserQuery, llm |-> TRUE]
          ELSE /\ last_op' = [kind |-> "search", question |-> UserQuery, llm |-> FALSE]
               /\ UNCHANGED <<context_out, conversation_history, search_results,
                              processing_question, writers>>
    /\ UNCHANGED <<variant, recorded, failures>>

\* a slip: the answered question is written by the session layer alone
AnsweredHistory_session_only(h, question, resp) ==
    extend(h, << SessionMessage("user", question, "user"),
                 SessionMessage("assistant", resp, "assistant") >>)

\* the follow-up question was answered: both messages go to the history
\* through the session layer and then again through the ContextManager
AnsweredHistory(h, question, resp) ==
    LET h1 == extend(h, << SessionMessage("user", question, "user"),
                           SessionMessage("assistant", resp, "assistant") >>)
        h2 == add_message(h1, "user", question, "None")
    IN add_message(h2, "assistant", resp, "None")

\* ChatHandler.handle_chat_input -> _handle_follow_up_question, and
\* app.py lines 607-613 -> handle_follow_up_question.
\* outcome "raise": an exception leaves the try body before anything is
\* appended, and the except branch appends the error message.
HandleFollowUp ==
    /\ search_results # NoResults
    /\ ~processing_question
    /\ \E typed \in TypedQuestions, outcome \in {"ok", "raise"}, resp \in Responses :
          LET question == Strip(typed)
              scan == IF variant = "handlers" THEN DuplicateScanHandlers
                                               ELSE DuplicateScanApp
          IN /\ question # <<>>
             /\ IF IsDuplicateQuestion(conversation_history, question, scan)
                THEN /\ outcome = "ok"
                     /\ last_op' = [kind |-> "follow_up", question |-> question,
                                    llm |-> FALSE]
                     /\ UNCHANGED <<conversation_history, context_out, writers,
                                    failures>>
                ELSE IF outcome = "ok"
                THEN /\ context_out' = get_context_messages(conversation_history)
                     /\ conversation_history' =
                           AnsweredHistory(conversation_history, question, resp)
                     /\ writers' = writers \cup {SessionWriter, "ContextManager"}
                     /\ last_op' = [kind |-> "follow_up", question |-> question,
                                    llm |-> TRUE]
                     /\ UNCHANGED failures
                ELSE /\ failures < MaxFailures
                     /\ failures' = failures + 1
                     /\ conversation_history' =
                           extend(conversation_history,
                                  << SessionMessage("assistant", ErrorMessage, "error") >>)
                     /\ writers' = writers \cup {SessionWriter}
                     /\ last_op' = [kind |-> "follow_up", question |-> question,
                                    llm |-> FALSE]
                     /\ UNCHANGED context_out
    /\ processing_question' = FALSE
    /\ UNCHANGED <<variant, search_results, recorded>>

\* ChatHandler._handle_clear_chat
HandleClearChat ==
    /\ variant = "handlers"
    /\ search_results # NoResults
    /\ conversation_history' =
          clear_history(reset_conversation_history(conversation_history))
    /\ processing_question' = FALSE
    /\ writers' = writers \cup {"SessionManager", "ContextManager"}
    /\ last_op' = [kind |-> "clear_chat", question |-> <<>>, llm |-> FALSE]
    /\ UNCHANGED <<variant, search_results, recorded, context_out, failures>>

\* the sidebar button "Clear History": app.py lines 427-436
SidebarClearHistory ==
    /\ variant = "app"
    /\ conversation_history' =
          clear_history(reset_conversation_history(conversation_history))
    /\ processing_question' = FALSE
    /\ writers' = writers \cup {"app", "ContextManager"}
    /\ last_op' = [kind |-> "clear_history_button", question |-> <<>>, llm |-> FALSE]
    /\ UNCHANGED <<variant, search_results, recorded, context_out, failures>>

\* the form button "Clear Chat": app.py lines 598-603
FormClearChat ==
    /\ variant = "app"
    /\ search_results # NoResults
    /\ conversation_history' =
          IF Len(conversation_history) > 2
          THEN FirstK(conversation_history, 2)
          ELSE conversation_history
    /\ processing_question' = FALSE
    /\ writers' = IF Len(conversation_history) > 2 THEN writers \cup {"app"} ELSE writers
    /\ last_op' = [kind |-> "clear_chat_button", question |-> <<>>, llm |-> FALSE]
    /\ UNCHANGED <<variant, search_results, recorded, context_out, failures>>

NextApp ==
    \/ HandleSearch /\ UNCHANGED <<rlVars, llmVars, searchVars, otherVars>>
    \/ HandleFollowUp /\ UNCHANGED <<rlVars, llmVars, searchVars, otherVars>>
    \/ HandleClearChat /\ UNCHANGED <<rlVars, llmVars, searchVars, otherVars>>
    \/ SidebarClearHistory /\ UNCHANGED <<rlVars, llmVars, searchVars, otherVars>>
    \/ FormClearChat /\ UNCHANGED <<rlVars, llmVars, searchVars, otherVars>>

AppInit ==
    /\ variant \in {"handlers", "app"}
    /\ conversation_history = <<>>
    /\ search_results = NoResults
    /\ processing_question = FALSE
    /\ recorded = <<>>
    /\ context_out = <<>>
    /\ writers = {}
    /\ failures = 0
    /\ last_op = [kind |-> "init", question |-> <<>>, llm |-> FALSE]

\* ------------------------------------------------------------------------
\* AzureOpenAIService (src/services/azure_openai_service.py)
\* ------------------------------------------------------------------------
max_retries == 1

\* `expires_in - 300`, in seconds
ExpiryBuffer == 300

\* response_data.get("expires_in", 3600), in seconds
DefaultExpiresIn == 3600

\* the lifetimes the OAuth endpoint may grant, in seconds
ExpiresIn == {DefaultExpiresIn, 200}

\* the markers of an authentication error, line 119-120
AuthMarkers ==
    { << "u", "n", "a", "u", "t", "h", "o", "r", "i", "z", "e", "d" >>,
      << "i", "n", "v", "a", "l", "i", "d", "_", "t", "o", "k", "e", "n" >>,
      << "t", "o", "k", "e", "n", "_", "e", "x", "p", "i", "r", "e", "d" >>,
      << "a", "u", "t", "h", "e", "n", "t", "i", "c", "a", "t", "i", "o",
         "n" >>,
      << "4", "0", "1" >> }

\* str(e) of the exceptions chat.completions.create may raise
ProviderErrors ==
    { << "E", "r", "r", "o", "r", " ", "c", "o", "d", "e", ":", " ", "4",
         "0", "1" >>,
      << "T", "o", "k", "e", "n", "_", "E", "x", "p", "i", "r", "e", "d" >>,
      << "R", "e", "q", "u", "e", "s", "t", " ", "t", "i", "m", "e", "d",
         " ", "o", "u", "t", "." >> }

\* the text the provider generates on success
ProviderText == <<"o", "k">>

\* raise Exception("Failed to generate access token"), line 62
TokenFailure ==
    << "F", "a", "i", "l", "e", "d", " ", "t", "o", " ", "g", "e", "n",
       "e", "r", "a", "t", "e", " ", "a", "c", "c", "e", "s", "s", " ",
       "t", "o", "k", "e", "n" >>

\* any(auth_error in str(e).lower() for auth_error in [...])
IsAuthError(e) == \E m \in AuthMarkers : Contains(Lower(e), m)

\* line 130
AuthApology ==
    << "S", "o", "r", "r", "y", ",", " ", "I", " ", "e", "n", "c", "o",
       "u", "n", "t", "e", "r", "e", "d", " ", "a", "n", " ", "a", "u",
       "t", "h", "e", "n", "t", "i", "c", "a", "t", "i", "o", "n", " ",
       "e", "r", "r", "o", "r", ".", " ", "P", "l", "e", "a", "s", "e",
       " ", "t", "r", "y", " ", "a", "g", "a", "i", "n", " ", "l", "a",
       "t", "e", "r", "." >>

ErrorPrefix ==
    << "S", "o", "r", "r", "y", ",", " ", "I", " ", "e", "n", "c", "o",
       "u", "n", "t", "e", "r", "e", "d", " ", "a", "n", " ", "e", "r",
       "r", "o", "r", " ", "g", "e", "n", "e", "r", "a", "t", "i", "n",
       "g", " ", "r", "e", "c", "o", "m", "m", "e", "n", "d", "a", "t",
       "i", "o", "n", "s", ":", " " >>

\* a slip of line 134: the error text is left out of the apology
ErrorApologyWithoutText(e) == ErrorPrefix

\* line 134: f"Sorry, I encountered an error generating recommendations: {str(e)}"
ErrorApology(e) == ErrorPrefix \o e

\* line 136
UnexpectedApology ==
    << "S", "o", "r", "r", "y", ",", " ", "I", " ", "e", "n", "c", "o",
       "u", "n", "t", "e", "r", "e", "d", " ", "a", "n", " ", "u", "n",
       "e", "x", "p", "e", "c", "t", "e", "d", " ", "e", "r", "r", "o",
       "r", ".", " ", "P", "l", "e", "a", "s", "e", " ", "t", "r", "y",
       " ", "a", "g", "a", "i", "n", "." >>

\* a slip of _is_token_expired: the cache is never trusted
IsTokenExpired_always == TRUE

\* _is_token_expired
IsTokenExpired == now >= token_data.expires_at

\* _generate_access_token on status 200: store the token and its expiry
NewToken(expires_in) ==
    [access_token |-> token_data.access_token + 1,
     expires_at |-> now + (expires_in - ExpiryBuffer) * TicksPerSecond]

\* the variables of generate_travel_recommendations that _get_access_token
\* does not touch
requestVars == <<client_key, gen_pc, attempt, gen_error, gen_errors, llm_calls,
                 token_posts, forced_refreshes, gen_result, requests>>

\* what a thread sees of the cache at one moment
CacheView == [at |-> now, access_token |-> token_data.access_token,
              expires_at |-> token_data.expires_at]

TokenInit ==
    /\ token_lock = 0
    /\ token_pc = [t \in Threads |-> "idle"]
    /\ token_seen = [t \in Threads |-> <<>>]
    /\ token_checked = [t \in Threads |-> <<>>]
    /\ token_posted = [t \in Threads |-> 0]
    /\ token_calls = 0
    /\ token_log = <<>>

\* a thread calls _get_access_token and waits at `with self._token_lock`
TokenCall(t) ==
    /\ token_pc[t] = "idle"
    /\ token_calls < MaxTokenCalls
    /\ token_calls' = token_calls + 1
    /\ token_pc' = [token_pc EXCEPT ![t] = "blocked"]
    /\ token_seen' = [token_seen EXCEPT ![t] =
                         [expired |-> IsTokenExpired,
                          access_token |-> token_data.access_token]]
    /\ UNCHANGED <<token_lock, token_checked, token_posted, token_log,
                   token_data, requestVars, now, advances>>

\* lines 58-59: the thread takes the lock and tests _is_token_expired
TokenEnter(t) ==
    /\ token_pc[t] = "blocked"
    /\ token_lock = 0
    /\ token_lock' = t
    /\ token_checked' = [token_checked EXCEPT ![t] = CacheView]
    /\ token_pc' = [token_pc EXCEPT ![t] =
                       IF IsTokenExpired THEN "post" ELSE "return"]
    /\ UNCHANGED <<token_seen, token_posted, token_calls, token_log,
                   token_data, requestVars, now, advances>>

\* what the log keeps of a call that ends
TokenEntry(t, posted, result) ==
    [thread |-> t, seen |-> token_seen[t], checked |-> token_checked[t],
     posted |-> posted, result |-> result, expires_at |-> token_data.expires_at]

\* lines 60-62 and 25-54: the POST; on status 200 the token and its expiry
\* are stored, otherwise _generate_access_token returns False and
\* _get_access_token raises, which releases the lock
TokenPost(t) ==
    /\ token_pc[t] = "post"
    /\ \/ \E e \in ExpiresIn :
             /\ token_data' = NewToken(e)
             /\ token_posted' = [token_posted EXCEPT ![t] = e]
             /\ token_pc' = [token_pc EXCEPT ![t] = "return"]
             /\ UNCHANGED <<token_lock, token_log>>
       \/ /\ token_log' = Append(token_log, TokenEntry(t, -1, 0))
          /\ token_lock' = 0
          /\ token_pc' = [token_pc EXCEPT ![t] = "idle"]
          /\ UNCHANGED <<token_data, token_posted>>
    /\ UNCHANGED <<token_seen, token_checked, token_calls, requestVars, now,
                   advances>>

\* line 66: return token_data["access_token"], and the lock is released
TokenReturn(t) ==
    /\ token_pc[t] = "return"
    /\ token_log' = Append(token_log,
                           TokenEntry(t, token_posted[t], token_data.access_token))
    /\ token_lock' = 0
    /\ token_pc' = [token_pc EXCEPT ![t] = "idle"]
    /\ token_posted' = [token_posted EXCEPT ![t] = 0]
    /\ UNCHANGED <<token_seen, token_checked, token_calls, token_data,
                   requestVars, now, advances>>

\* the clock moves while threads are inside or outside _get_access_token
TokenAdvance ==
    /\ advances < MaxAdvances
    /\ advances' = advances + 1
    /\ \E d \in {Second, (DefaultExpiresIn - ExpiryBuffer) * TicksPerSecond} :
          now' = now + d
    /\ UNCHANGED <<token_data, requestVars, tokenVars>>

RLRest == <<requests_per_second, requests_per_day, daily_reset_time, lock, pc,
            current_time, wait_time, slept, asked, calls, returns>>

NextToken ==
    \/ TokenAdvance /\ UNCHANGED <<RLRest, appVars, searchVars, scoreVars, promptVars, equivVars>>
    \/ \E t \in Threads : TokenCall(t) /\ UNCHANGED <<RLRest, appVars, searchVars, scoreVars, promptVars, equivVars>>
    \/ \E t \in Threads : TokenEnter(t) /\ UNCHANGED <<RLRest, appVars, searchVars, scoreVars, promptVars, equivVars>>
    \/ \E t \in Threads : TokenPost(t) /\ UNCHANGED <<RLRest, appVars, searchVars, scoreVars, promptVars, equivVars>>
    \/ \E t \in Threads : TokenReturn(t) /\ UNCHANGED <<RLRest, appVars, searchVars, scoreVars, promptVars, equivVars>>

\* a slip: _ensure_valid_client placed before the try statement, so that
\* its exception leaves generate_travel_recommendations
EnsureFailureEscapes == "raised"

\* line 101-103: _ensure_valid_client runs inside the try statement, so its
\* exception is handled by the except clause of line 115
EnsureFailureGoesTo == "except"

\* Config.MAX_CONTEXT_MESSAGES
MAX_CONTEXT_MESSAGES == 10

\* {"role": "system", "content": system_prompt}
SystemMessage == [role |-> "system", content |-> "system_prompt"]

\* {"role": "user", "content": user_prompt}
UserPromptMessage == [role |-> "user", content |-> "user_prompt"]

\* a context_history of n messages, as get_context_messages hands them over
SuppliedContext(n) ==
    [i \in 1..n |-> [role |-> IF i % 2 = 1 THEN "user" ELSE "assistant",
                     content |-> ToString(i)]]

\* a slip of line 94: the slice keeps the oldest messages
build_messages_oldest(context) ==
    << SystemMessage >> \o FirstK(context, MAX_CONTEXT_MESSAGES)
       \o << UserPromptMessage >>

\* lines 91-97: the system message, the last MAX_CONTEXT_MESSAGES messages
\* of context_history, the user prompt
build_messages(context) ==
    << SystemMessage >> \o LastK(context, MAX_CONTEXT_MESSAGES)
       \o << UserPromptMessage >>

LLMInit ==
    /\ context_history = <<>>
    /\ gen_messages = <<>>
    /\ sent = <<>>
    /\ \E e \in ExpiresIn :
          token_data = [access_token |-> 1,
                        expires_at |-> 0 + (e - ExpiryBuffer) * TicksPerSecond]
    /\ client_key = 1
    /\ gen_pc = "idle"
    /\ attempt = 0
    /\ gen_error = <<>>
    /\ gen_errors = <<>>
    /\ llm_calls = 0
    /\ token_posts = 0
    /\ forced_refreshes = 0
    /\ gen_result = <<>>
    /\ requests = 0

\* the clock moves while a request is in progress or between requests
LLMAdvance ==
    /\ advances < MaxAdvances
    /\ advances' = advances + 1
    /\ \E d \in {Second, (DefaultExpiresIn - ExpiryBuffer) * TicksPerSecond} :
          now' = now + d
    /\ UNCHANGED <<requests_per_second, requests_per_day, daily_reset_time,
                   lock, pc, current_time, wait_time, slept, asked, calls,
                   returns>>
    /\ UNCHANGED llmVars

\* lines 85-100: a caller invokes generate_travel_recommendations
GenStart ==
    /\ gen_pc \in {"idle", "returned", "raised"}
    /\ requests < MaxRequests
    /\ requests' = requests + 1
    /\ gen_pc' = "loop"
    /\ attempt' = 0
    /\ gen_error' = <<>>
    /\ gen_errors' = <<>>
    /\ llm_calls' = 0
    /\ token_posts' = 0
    /\ forced_refreshes' = 0
    /\ gen_result' = <<>>
    /\ \E n \in 0..MaxContext :
          /\ context_history' = SuppliedContext(n)
          /\ gen_messages' = build_messages(context_history')
    /\ sent' = <<>>
    /\ UNCHANGED <<token_data, client_key>>

\* lines 100-103: the loop head and _ensure_valid_client; line 136 when the
\* loop is exhausted
GenEnsureClient ==
    /\ gen_pc = "loop"
    /\ IF attempt >= max_retries
       THEN /\ gen_pc' = "returned"
            /\ gen_result' = UnexpectedApology
            /\ UNCHANGED <<token_data, client_key, gen_error, token_posts>>
       ELSE IF IsTokenExpired
       THEN /\ token_posts' = token_posts + 1
            /\ \/ \E e \in ExpiresIn :
                     /\ token_data' = NewToken(e)
                     /\ client_key' = token_data'.access_token
                     /\ gen_pc' = "call"
                     /\ UNCHANGED gen_error
               \/ /\ gen_pc' = EnsureFailureGoesTo
                  /\ gen_error' = TokenFailure
                  /\ UNCHANGED <<token_data, client_key>>
            /\ UNCHANGED gen_result
       ELSE /\ gen_pc' = "call"
            /\ UNCHANGED <<token_data, client_key, gen_error, token_posts, gen_result>>
    /\ UNCHANGED <<attempt, gen_errors, llm_calls, forced_refreshes, requests>>

\* lines 105-113: the chat-completion call
GenCallProvider ==
    /\ gen_pc = "call"
    /\ llm_calls' = llm_calls + 1
    /\ sent' = Append(sent, gen_messages)
    /\ UNCHANGED <<context_history, gen_messages>>
    /\ \/ /\ gen_pc' = "returned"
          /\ gen_result' = ProviderText
          /\ UNCHANGED <<gen_error, gen_errors>>
       \/ \E e \in ProviderErrors :
             /\ gen_pc' = "except"
             /\ gen_error' = e
             /\ gen_errors' = Append(gen_errors, e)
             /\ UNCHANGED gen_result
    /\ UNCHANGED <<token_data, client_key, attempt, token_posts,
                   forced_refreshes, requests>>

\* lines 115-134: the except clause
GenHandleError ==
    /\ gen_pc = "except"
    /\ IF IsAuthError(gen_error)
       THEN IF attempt < max_retries - 1
            THEN /\ forced_refreshes' = forced_refreshes + 1
                 /\ token_posts' = token_posts + 1
                 /\ \/ \E e \in ExpiresIn :
                          /\ token_data' = NewToken(e)
                          /\ client_key' = token_data'.access_token
                          /\ attempt' = attempt + 1
                          /\ gen_pc' = "loop"
                    \/ /\ token_data' = [token_data EXCEPT !.expires_at = 0]
                       /\ gen_pc' = "raised"
                       /\ UNCHANGED <<client_key, attempt>>
                 /\ UNCHANGED gen_result
            ELSE /\ gen_pc' = "returned"
                 /\ gen_result' = AuthApology
                 /\ UNCHANGED <<token_data, client_key, attempt, token_posts,
                                forced_refreshes>>
       ELSE /\ gen_pc' = "returned"
            /\ gen_result' = ErrorApology(gen_error)
            /\ UNCHANGED <<token_data, client_key, attempt, token_posts,
                           forced_refreshes>>
    /\ UNCHANGED <<gen_error, gen_errors, llm_calls, requests>>

NextLLM ==
    \/ LLMAdvance /\ UNCHANGED <<appVars, searchVars, otherVars>>
    \/ GenStart /\ UNCHANGED <<rlVars, appVars, searchVars, scoreVars, tokenVars, equivVars>>
    \/ GenEnsureClient /\ UNCHANGED <<rlVars, appVars, searchVars, otherVars>>
    \/ GenCallProvider /\ UNCHANGED <<rlVars, appVars, searchVars, scoreVars, tokenVars, equivVars>>
    \/ GenHandleError /\ UNCHANGED <<rlVars, appVars, searchVars, otherVars>>

\* ------------------------------------------------------------------------
\* Places.  A place is the dict of the provider: a record whose fields may
\* be absent.  Ratings are counted in tenths (4.5 is 45); scores are
\* counted in quarters of a millionth, so that the factors 0.5, 0.75 and
\* 1.0 and the sums of the score stay integers.
\* ------------------------------------------------------------------------
\* a record of the provider: its place_id and the other fields it carries
Place(id, payload) == [place_id |-> id] @@ payload

\* dict.get(field, default)
Get(place, field, default) ==
    IF field \in DOMAIN place THEN place[field] ELSE default

\* one unit of rating, in tenths
RatingOne == 10

\* one unit of score before the credibility factor, in millionths
Micro == 1000000

\* math.log10(x) * 2 in millionths, rounded down, for the arguments
\* user_ratings_total + 1 of the places of the model
Log10Twice(x) ==
    CASE x = 2 -> 602059
      [] x = 10 -> 2000000
      [] x = 50 -> 3397940
      [] x = 51 -> 3415140
      [] x = 100 -> 4000000
      [] x = 101 -> 4008642
      [] x = 201 -> 4606392
      [] x = 316 -> 4999374
      [] x = 317 -> 5002118
      [] x = 1000 -> 6000000
      [] x = 10000 -> 8000000

\* lines 20-23: min(math.log10(user_ratings_total + 1) * 2, 5), else 0
popularity_bonus(user_ratings_total) ==
    IF user_ratings_total > 0
    THEN Min(Log10Twice(user_ratings_total + 1), 5 * Micro)
    ELSE 0

\* a slip of lines 26-31: the thresholds are off by one
credibility_factor_inclusive(user_ratings_total) ==
    IF user_ratings_total <= 50 THEN 2
    ELSE IF user_ratings_total <= 100 THEN 3
    ELSE 4

\* lines 26-31: 0.5, 0.75 or 1.0, in quarters
credibility_factor(user_ratings_total) ==
    IF user_ratings_total < 50 THEN 2
    ELSE IF user_ratings_total < 100 THEN 3
    ELSE 4

\* a slip of the last line: the score is divided by the factor
calculate_score_divided(place) ==
    LET rating == Get(place, "rating", 0)
        user_ratings_total == Get(place, "user_ratings_total", 0)
        rating_score == rating * 2 * (Micro \div RatingOne)
    IN ((rating_score + popularity_bonus(user_ratings_total)) * 16)
          \div credibility_factor(user_ratings_total)

\* GooglePlacesService._calculate_score
calculate_score(place) ==
    LET rating == Get(place, "rating", 0)
        user_ratings_total == Get(place, "user_ratings_total", 0)
        rating_score == rating * 2 * (Micro \div RatingOne)
    IN (rating_score + popularity_bonus(user_ratings_total))
          * credibility_factor(user_ratings_total)

\* PlaceRanker.calculate_score, the copy in services/place_ranker.py
PlaceRanker_calculate_score(place) ==
    LET rating == Get(place, "rating", 0)
        user_ratings_total == Get(place, "user_ratings_total", 0)
        rating_score == rating * 2 * (Micro \div RatingOne)
        bonus == IF user_ratings_total > 0
                 THEN Min(Log10Twice(user_ratings_total + 1), 5 * Micro)
                 ELSE 0
        factor == IF user_ratings_total < 50 THEN 2
                  ELSE IF user_ratings_total < 100 THEN 3
                  ELSE 4
    IN (rating_score + bonus) * factor

\* a slip of sort_key: the review count is left out of the key
sort_key_without_reviews(place) ==
    << -calculate_score(place), -Get(place, "rating", 0), 0 >>

\* sort_key of _sort_places_by_quality
sort_key(place) ==
    << -calculate_score(place), -Get(place, "rating", 0),
       -Get(place, "user_ratings_total", 0) >>

\* Python's `<` on tuples of three numbers
TupleLess(a, b) ==
    \/ a[1] < b[1]
    \/ a[1] = b[1] /\ a[2] < b[2]
    \/ a[1] = b[1] /\ a[2] = b[2] /\ a[3] < b[3]

\* insertion of x into a sorted list behind every element that is not
\* greater: what a stable sort does with a new last element
RECURSIVE InsertStable(_, _)
InsertStable(sorted, x) ==
    IF sorted = <<>> THEN << x >>
    ELSE IF TupleLess(sort_key(x), sort_key(Head(sorted)))
         THEN << x >> \o sorted
         ELSE << Head(sorted) >> \o InsertStable(Tail(sorted), x)

\* sorted(places, key=sort_key): stable, ascending in the key
RECURSIVE sort_places_by_quality(_)
sort_places_by_quality(places) ==
    IF places = <<>> THEN <<>>
    ELSE InsertStable(sort_places_by_quality(SubSeq(places, 1, Len(places) - 1)),
                      places[Len(places)])

\* the places handed to the ranker in the model: ties in the score with
\* different ratings (1, 2), ties in score and rating with different review
\* counts (3, 4), full ties (4, 5), absent fields (2, 6), and review counts
\* on both sides of the thresholds 50 and 100
RankCatalog ==
    { Place(1, [name |-> <<"A">>, rating |-> 40, user_ratings_total |-> 9]),
      Place(2, [name |-> <<"B">>, rating |-> 50]),
      Place(3, [name |-> <<"C">>, rating |-> 45, user_ratings_total |-> 999]),
      Place(4, [name |-> <<"D">>, rating |-> 45, user_ratings_total |-> 9999]),
      Place(5, [name |-> <<"E">>, rating |-> 45, user_ratings_total |-> 9999]),
      Place(6, [name |-> <<"F">>]),
      Place(7, [name |-> <<"G">>, rating |-> 40, user_ratings_total |-> 49]),
      Place(8, [name |-> <<"H">>, rating |-> 40, user_ratings_total |-> 50]),
      Place(9, [name |-> <<"I">>, rating |-> 40, user_ratings_total |-> 99]),
      Place(10, [name |-> <<"J">>, rating |-> 40, user_ratings_total |-> 100]),
      Place(11, [name |-> <<"K">>, rating |-> 45, user_ratings_total |-> 200]) }

RankInit ==
    /\ rank_pc = "collect"
    /\ rank_in = <<>>
    /\ rank_out = <<>>
    /\ rank_scores = <<>>

\* the caller puts one more place on the list it will have ranked
RankCollect ==
    /\ rank_pc = "collect"
    /\ Len(rank_in) < MaxRankLen
    /\ \E place \in RankCatalog : rank_in' = Append(rank_in, place)
    /\ UNCHANGED <<rank_pc, rank_out, rank_scores, filterVars>>

\* a call of _sort_places_by_quality / PlaceRanker.sort_places_by_quality
RankSort ==
    /\ rank_pc = "collect"
    /\ rank_pc' = "sorted"
    /\ rank_scores' = [i \in DOMAIN rank_in |-> calculate_score(rank_in[i])]
    /\ rank_out' = sort_places_by_quality(rank_in)
    /\ UNCHANGED <<rank_in, filterVars>>

\* the ranker called on what it returned
RankSortAgain ==
    /\ rank_pc = "sorted"
    /\ rank_in' = rank_out
    /\ rank_scores' = [i \in DOMAIN rank_out |-> calculate_score(rank_out[i])]
    /\ rank_out' = sort_places_by_quality(rank_out)
    /\ UNCHANGED <<rank_pc, filterVars>>

NextRank ==
    \/ RankCollect /\ UNCHANGED <<rlVars, appVars, llmVars, pipeVars, otherVars>>
    \/ RankSort /\ UNCHANGED <<rlVars, appVars, llmVars, pipeVars, otherVars>>
    \/ RankSortAgain /\ UNCHANGED <<rlVars, appVars, llmVars, pipeVars, otherVars>>

\* ratings between 0 and 5, in tenths
ScoreRatings == {0, 40, 45, 50}

\* review counts on both sides of the thresholds 50 and 100 and of the
\* point where log10(n + 1) * 2 reaches 5 (between 315 and 316)
ScoreCounts == {0, 1, 49, 50, 99, 100, 315, 316, 9999}

\* places with and without the fields rating and user_ratings_total
ScorePlaces ==
    { Place(0, [name |-> <<"S">>]) }
    \cup { Place(0, [name |-> <<"S">>, rating |-> r]) : r \in ScoreRatings }
    \cup { Place(0, [name |-> <<"S">>, user_ratings_total |-> n]) : n \in ScoreCounts }
    \cup { Place(0, [name |-> <<"S">>, rating |-> r, user_ratings_total |-> n]) :
               r \in ScoreRatings, n \in ScoreCounts }

ScoreInit ==
    /\ score_in = <<>>
    /\ score_out = <<>>
    /\ score_ranker = <<>>

\* a call of _calculate_score and of PlaceRanker.calculate_score
ScoreCall ==
    /\ Len(score_in) < MaxScoreCalls
    /\ \E place \in ScorePlaces :
          /\ score_in' = Append(score_in, place)
          /\ score_out' = Append(score_out, calculate_score(place))
          /\ score_ranker' = Append(score_ranker, PlaceRanker_calculate_score(place))

NextScore ==
    \/ ScoreCall /\ UNCHANGED <<rlVars, appVars, llmVars, searchVars, promptVars, tokenVars,
                             equivVars>>

\* ------------------------------------------------------------------------
\* GooglePlacesService._filter_by_category / PlaceFilter.filter_by_category
\* ------------------------------------------------------------------------
\* the keys of category_filters
ConfiguredCategories == {"tourist_places", "restaurants", "activities", "hotels"}

\* category_filters[category]['include_keywords'], lines 229-246
include_keywords(category) ==
    CASE category = "tourist_places" ->
           << << "t", "o", "u", "r", "i", "s", "t" >>,
              << "a", "t", "t", "r", "a", "c", "t", "i", "o", "n" >>,
              << "m", "u", "s", "e", "u", "m" >>,
              << "p", "a", "r", "k" >>,
              << "t", "e", "m", "p", "l", "e" >>,
              << "c", "h", "u", "r", "c", "h" >>,
              << "m", "o", "n", "u", "m", "e", "n", "t" >>,
              << "h", "e", "r", "i", "t", "a", "g", "e" >>,
              << "s", "c", "e", "n", "i", "c" >>,
              << "v", "i", "e", "w", "p", "o", "i", "n", "t" >>,
              << "f", "o", "r", "t" >>,
              << "p", "a", "l", "a", "c", "e" >> >>
      [] category = "restaurants" ->
           << << "r", "e", "s", "t", "a", "u", "r", "a", "n", "t" >>,
              << "c", "a", "f", "e" >>,
              << "f", "o", "o", "d" >>,
              << "d", "i", "n", "i", "n", "g" >>,
              << "k", "i", "t", "c", "h", "e", "n" >>,
              << "b", "i", "s", "t", "r", "o" >>,
              << "e", "a", "t", "e", "r", "y" >>,
              << "c", "u", "i", "s", "i", "n", "e" >> >>
      [] category = "activities" ->
           << << "a", "c", "t", "i", "v", "i", "t", "y" >>,
              << "a", "d", "v", "e", "n", "t", "u", "r", "e" >>,
              << "s", "p", "o", "r", "t", "s" >>,
              << "r", "e", "c", "r", "e", "a", "t", "i", "o", "n" >>,
              << "e", "n", "t", "e", "r", "t", "a", "i", "n", "m", "e",
                 "n", "t" >>,
              << "c", "l", "u", "b" >>,
              << "c", "e", "n", "t", "e", "r" >>,
              << "s", "t", "u", "d", "i", "o" >> >>
      [] category = "hotels" ->
           << << "h", "o", "t", "e", "l" >>,
              << "r", "e", "s", "o", "r", "t" >>,
              << "l", "o", "d", "g", "e" >>,
              << "a", "c", "c", "o", "m", "m", "o", "d", "a", "t", "i",
                 "o", "n" >>,
              << "s", "t", "a", "y" >>,
              << "i", "n", "n" >>,
              << "g", "u", "e", "s", "t", " ", "h", "o", "u", "s", "e" >> >>

\* category_filters[category]['exclude_keywords'], lines 229-246
exclude_keywords(category) ==
    CASE category = "tourist_places" ->
           << << "r", "e", "s", "t", "a", "u", "r", "a", "n", "t" >>,
              << "h", "o", "t", "e", "l" >>,
              << "l", "o", "d", "g", "e" >>,
              << "f", "o", "o", "d" >>,
              << "c", "a", "f", "e" >>,
              << "b", "a", "r" >>,
              << "g", "y", "m" >>,
              << "h", "o", "s", "p", "i", "t", "a", "l" >>,
              << "b", "a", "n", "k" >>,
              << "u", "n", "i", "v", "e", "r", "s", "i", "t", "y" >>,
              << "t", "r", "a", "v", "e", "l", "_", "a", "g", "e", "n",
                 "c", "y" >> >>
      [] category = "restaurants" ->
           << << "h", "o", "t", "e", "l" >>,
              << "l", "o", "d", "g", "e" >>,
              << "h", "o", "s", "p", "i", "t", "a", "l" >>,
              << "g", "y", "m" >>,
              << "t", "e", "m", "p", "l", "e" >>,
              << "m", "u", "s", "e", "u", "m" >>,
              << "u", "n", "i", "v", "e", "r", "s", "i", "t", "y" >>,
              << "t", "r", "a", "v", "e", "l", "_", "a", "g", "e", "n",
                 "c", "y" >> >>
      [] category = "activities" ->
           << << "h", "o", "t", "e", "l" >>,
              << "r", "e", "s", "t", "a", "u", "r", "a", "n", "t" >>,
              << "s", "p", "a" >>,
              << "f", "o", "o", "d" >>,
              << "l", "o", "d", "g", "e" >>,
              << "h", "o", "s", "p", "i", "t", "a", "l" >>,
              << "b", "a", "n", "k" >>,
              << "u", "n", "i", "v", "e", "r", "s", "i", "t", "y" >>,
              << "h", "i", "n", "d", "u", "_", "t", "e", "m", "p", "l",
                 "e" >>,
              << "c", "h", "u", "r", "c", "h" >>,
              << "m", "o", "s", "q", "u", "e" >>,
              << "t", "r", "a", "v", "e", "l", "_", "a", "g", "e", "n",
                 "c", "y" >> >>
      [] category = "hotels" ->
           << << "r", "e", "s", "t", "a", "u", "r", "a", "n", "t" >>,
              << "c", "a", "f", "e" >>,
              << "f", "o", "o", "d" >>,
              << "h", "o", "s", "p", "i", "t", "a", "l" >>,
              << "g", "y", "m" >>,
              << "t", "e", "m", "p", "l", "e" >>,
              << "m", "u", "s", "e", "u", "m" >>,
              << "u", "n", "i", "v", "e", "r", "s", "i", "t", "y" >>,
              << "t", "r", "a", "v", "e", "l", "_", "a", "g", "e", "n",
                 "c", "y" >> >>

\* category_type_mapping.get(category, []), lines 87-129
category_type_mapping(category) ==
    CASE category = "tourist_places" ->
           << << "t", "o", "u", "r", "i", "s", "t", "_", "a", "t", "t",
                 "r", "a", "c", "t", "i", "o", "n" >>,
              << "m", "u", "s", "e", "u", "m" >>,
              << "p", "a", "r", "k" >>,
              << "z", "o", "o" >>,
              << "a", "m", "u", "s", "e", "m", "e", "n", "t", "_", "p",
                 "a", "r", "k" >>,
              << "a", "q", "u", "a", "r", "i", "u", "m" >>,
              << "a", "r", "t", "_", "g", "a", "l", "l", "e", "r", "y" >>,
              << "h", "i", "n", "d", "u", "_", "t", "e", "m", "p", "l",
                 "e" >>,
              << "n", "a", "t", "u", "r", "a", "l", "_", "f", "e", "a",
                 "t", "u", "r", "e" >>,
              << "c", "a", "m", "p", "g", "r", "o", "u", "n", "d" >> >>
      [] category = "restaurants" ->
           << << "r", "e", "s", "t", "a", "u", "r", "a", "n", "t" >>,
              << "m", "e", "a", "l", "_", "t", "a", "k", "e", "a", "w",
                 "a", "y" >>,
              << "c", "a", "f", "e" >>,
              << "b", "a", "k", "e", "r", "y" >>,
              << "b", "a", "r" >>,
              << "f", "o", "o", "d" >> >>
      [] category = "activities" ->
           << << "s", "p", "a" >>,
              << "b", "o", "w", "l", "i", "n", "g", "_", "a", "l", "l",
                 "e", "y" >>,
              << "m", "o", "v", "i", "e", "_", "t", "h", "e", "a", "t",
                 "e", "r" >>,
              << "n", "i", "g", "h", "t", "_", "c", "l", "u", "b" >>,
              << "s", "t", "a", "d", "i", "u", "m" >>,
              << "t", "o", "u", "r", "i", "s", "t", "_", "a", "t", "t",
                 "r", "a", "c", "t", "i", "o", "n" >>,
              << "a", "m", "u", "s", "e", "m", "e", "n", "t", "_", "p",
                 "a", "r", "k" >>,
              << "p", "a", "r", "k" >>,
              << "z", "o", "o" >>,
              << "a", "q", "u", "a", "r", "i", "u", "m" >>,
              << "c", "a", "s", "i", "n", "o" >>,
              << "m", "o", "v", "i", "e", "_", "r", "e", "n", "t", "a",
                 "l" >> >>
      [] category = "hotels" ->
           << << "l", "o", "d", "g", "i", "n", "g" >>,
              << "c", "a", "m", "p", "g", "r", "o", "u", "n", "d" >>,
              << "r", "v", "_", "p", "a", "r", "k" >> >>
      [] OTHER -> <<>>

\* the places handed to the filter in the model: an include keyword beside
\* an exclude keyword (1, 6), a relevant type that is an exclude keyword
\* (2), an include keyword only (3), a rating of 4.0 or more only (4, 8), no
\* match at all (5), upper case (6, 7), absent fields (8), and a keyword in
\* the vicinity (9)
FilterCatalog ==
    { Place(1,
            [name |->
              << "C", "i", "t", "y", " ", "H", "o", "s", "p", "i", "t",
                 "a", "l", " ", "C", "a", "f", "e" >>,
             types |->
              << << "c", "a", "f", "e" >>,
                 << "f", "o", "o", "d" >> >>,
             vicinity |->
              << "M", "a", "i", "n", " ", "S", "t" >>,
             rating |-> 45]),
      Place(2,
            [name |->
              << "Z", "e", "n" >>,
             types |->
              << << "s", "p", "a" >> >>,
             rating |-> 48]),
      Place(3,
            [name |->
              << "O", "l", "d", " ", "F", "o", "r", "t" >>,
             types |->
              << << "p", "o", "i", "n", "t", "_", "o", "f", "_", "i", "n",
                    "t", "e", "r", "e", "s", "t" >> >>,
             rating |-> 30]),
      Place(4,
            [name |->
              << "X", "y", "z" >>,
             types |->
              <<>>,
             rating |-> 45,
             user_ratings_total |-> 200]),
      Place(5,
            [name |->
              << "Q", "r", "s" >>,
             types |->
              << << "s", "t", "o", "r", "e" >> >>,
             rating |-> 39]),
      Place(6,
            [name |->
              << "G", "r", "a", "n", "d", " ", "H", "O", "T", "E", "L" >>,
             types |->
              << << "l", "o", "d", "g", "i", "n", "g" >> >>,
             rating |-> 46]),
      Place(7,
            [name |->
              << "L", "a", "k", "e" >>,
             types |->
              << << "P", "a", "r", "k" >> >>]),
      Place(8,
            [rating |-> 40]),
      Place(9,
            [name |->
              << "J", "o", "e" >>,
             types |->
              << << "e", "s", "t", "a", "b", "l", "i", "s", "h", "m", "e",
                    "n", "t" >> >>,
             vicinity |->
              << "T", "e", "m", "p", "l", "e", " ", "R", "o", "a", "d" >>]) }

\* ' '.join(types)
RECURSIVE JoinWithSpace(_)
JoinWithSpace(words) ==
    IF words = <<>> THEN <<>>
    ELSE IF Len(words) = 1 THEN Head(words)
    ELSE Head(words) \o << " " >> \o JoinWithSpace(Tail(words))

\* [t.lower() for t in place.get('types', [])]
LowerTypes(place) ==
    LET types == Get(place, "types", <<>>)
    IN [i \in DOMAIN types |-> Lower(types[i])]

\* lines 67-72: f"{name} {' '.join(types)} {vicinity}"
combined_text(place) ==
    Lower(Get(place, "name", <<>>)) \o << " " >>
       \o JoinWithSpace(LowerTypes(place)) \o << " " >>
       \o Lower(Get(place, "vicinity", <<>>))

\* a slip of line 75: a place with a relevant type is never excluded
should_exclude_unless_relevant(place, category) ==
    /\ LET text == combined_text(place)
       IN \E k \in DOMAIN exclude_keywords(category) :
             Contains(text, exclude_keywords(category)[k])
    /\ ~ \E k \in DOMAIN category_type_mapping(category) :
          \E t \in DOMAIN LowerTypes(place) :
             LowerTypes(place)[t] = category_type_mapping(category)[k]

\* line 75: any(keyword in combined_text for keyword in exclude_keywords)
should_exclude(place, category) ==
    LET text == combined_text(place)
    IN \E k \in DOMAIN exclude_keywords(category) :
          Contains(text, exclude_keywords(category)[k])

\* a slip of lines 133-135: the rating is not looked at
matches_category_without_rating(place, category) ==
    \/ LET text == combined_text(place)
       IN \E k \in DOMAIN include_keywords(category) :
             Contains(text, include_keywords(category)[k])
    \/ \E k \in DOMAIN category_type_mapping(category) :
          \E t \in DOMAIN LowerTypes(place) :
             LowerTypes(place)[t] = category_type_mapping(category)[k]

\* lines 80-135: include keyword, relevant type, or a tourist place rated
\* 4.0 or more
matches_category(place, category) ==
    \/ LET text == combined_text(place)
       IN \E k \in DOMAIN include_keywords(category) :
             Contains(text, include_keywords(category)[k])
    \/ \E k \in DOMAIN category_type_mapping(category) :
          \E t \in DOMAIN LowerTypes(place) :
             LowerTypes(place)[t] = category_type_mapping(category)[k]
    \/ category = "tourist_places" /\ Get(place, "rating", 0) >= 4 * RatingOne

\* the loop of lines 66-138 over the places, in order
RECURSIVE FilterLoop(_, _)
FilterLoop(places, category) ==
    IF places = <<>> THEN <<>>
    ELSE IF should_exclude(Head(places), category)
         THEN FilterLoop(Tail(places), category)
         ELSE IF matches_category(Head(places), category)
              THEN << Head(places) >> \o FilterLoop(Tail(places), category)
              ELSE FilterLoop(Tail(places), category)

\* _filter_by_category(places, category, category_filters)
filter_by_category(places, category) ==
    IF category \notin ConfiguredCategories THEN places
    ELSE FilterLoop(places, category)

\* the categories the filter is called with in the model: the configured
\* ones and one that category_filters does not have
FilterCategories == ConfiguredCategories \cup {"locality"}

FilterInit ==
    /\ filter_pc = "collect"
    /\ filter_category = ""
    /\ filter_in = <<>>
    /\ filter_out = <<>>

\* the caller puts one more place on the list it will have filtered
FilterCollect ==
    /\ filter_pc = "collect"
    /\ Len(filter_in) < MaxFilterLen
    /\ \E place \in FilterCatalog : filter_in' = Append(filter_in, place)
    /\ UNCHANGED <<filter_pc, filter_category, filter_out, rankVars>>

\* a call of _filter_by_category / PlaceFilter.filter_by_category
FilterApply ==
    /\ filter_pc = "collect"
    /\ filter_pc' = "filtered"
    /\ \E category \in FilterCategories :
          /\ filter_category' = category
          /\ filter_out' = filter_by_category(filter_in, category)
    /\ UNCHANGED <<filter_in, rankVars>>

NextFilter ==
    \/ FilterCollect /\ UNCHANGED <<rlVars, appVars, llmVars, pipeVars, otherVars>>
    \/ FilterApply /\ UNCHANGED <<rlVars, appVars, llmVars, pipeVars, otherVars>>

\* ------------------------------------------------------------------------
\* GooglePlacesService.search_places (src/services/google_places_service.py)
\* ------------------------------------------------------------------------
\* the search_queries table of lines 186-226
search_queries(category) ==
    CASE category = "tourist_places" ->
           << "tourist_attraction", "museum", "park", "zoo", "amusement_park",
              "aquarium", "art_gallery", "hindu_temple", "natural_feature",
              "campground" >>
      [] category = "restaurants" ->
           << "restaurant", "meal_takeaway", "cafe", "bakery", "bar", "food" >>
      [] category = "activities" ->
           << "spa", "bowling_alley", "movie_theater", "night_club", "stadium",
              "tourist_attraction", "amusement_park", "park", "zoo", "aquarium",
              "casino", "movie_rental" >>
      [] category = "hotels" ->
           << "lodging", "campground", "rv_park" >>
      [] OTHER -> << category >>

\* the categories searched in the model: one of the table, one outside it
PlaceTypes == {"hotels", "locality"}

\* an answer of the provider with the same place_id twice, the payloads
\* differing
BatchRepeated ==
    << Place(1,
             [name |-> << "I", "n", "n", " ", "A" >>,
              types |-> << << "l", "o", "d", "g", "i", "n", "g" >> >>,
              rating |-> 40,
              user_ratings_total |-> 100]),
       Place(2,
             [name |-> << "I", "n", "n", " ", "B" >>,
              types |-> << << "l", "o", "d", "g", "i", "n", "g" >> >>,
              rating |-> 45,
              user_ratings_total |-> 999]),
       Place(1,
             [name |-> << "I", "n", "n", " ", "Z" >>,
              types |-> << << "l", "o", "d", "g", "i", "n", "g" >> >>,
              rating |-> 50,
              user_ratings_total |-> 9999]) >>

\* an answer with a record without place_id, a place the hotels filter
\* rejects, and a place_id BatchRepeated has too
BatchMixed ==
    << [name |-> << "I", "n", "n", " ", "N" >>,
              types |-> << << "l", "o", "d", "g", "i", "n", "g" >> >>,
              rating |-> 50,
              user_ratings_total |-> 9999],
       Place(3,
             [name |-> << "C", "i", "t", "y", " ", "H", "o", "s", "p", "i", "t", "a", "l", " ", "C", "a", "f", "e" >>,
              types |-> << << "c", "a", "f", "e" >>, << "f", "o", "o", "d" >> >>,
              rating |-> 45,
              user_ratings_total |-> 200]),
       Place(2,
             [name |-> << "I", "n", "n", " ", "Y" >>,
              types |-> << << "l", "o", "d", "g", "i", "n", "g" >> >>,
              rating |-> 30]),
       Place(4,
             [name |-> << "I", "n", "n", " ", "C" >>,
              types |-> << << "l", "o", "d", "g", "i", "n", "g" >> >>,
              rating |-> 42,
              user_ratings_total |-> 50]) >>

\* an answer with more places than MAX_RESULTS
BatchLarge ==
    << Place(10,
             [name |-> << "I", "n", "n", " ", "D" >>,
              types |-> << << "l", "o", "d", "g", "i", "n", "g" >> >>,
              rating |-> 41,
              user_ratings_total |-> 100]),
       Place(11,
             [name |-> << "I", "n", "n", " ", "E" >>,
              types |-> << << "l", "o", "d", "g", "i", "n", "g" >> >>,
              rating |-> 42,
              user_ratings_total |-> 100]),
       Place(12,
             [name |-> << "I", "n", "n", " ", "F" >>,
              types |-> << << "l", "o", "d", "g", "i", "n", "g" >> >>,
              rating |-> 43,
              user_ratings_total |-> 100]),
       Place(13,
             [name |-> << "I", "n", "n", " ", "G" >>,
              types |-> << << "l", "o", "d", "g", "i", "n", "g" >> >>,
              rating |-> 44,
              user_ratings_total |-> 100]),
       Place(14,
             [name |-> << "I", "n", "n", " ", "H" >>,
              types |-> << << "l", "o", "d", "g", "i", "n", "g" >> >>,
              rating |-> 45,
              user_ratings_total |-> 100]),
       Place(15,
             [name |-> << "I", "n", "n", " ", "I" >>,
              types |-> << << "l", "o", "d", "g", "i", "n", "g" >> >>,
              rating |-> 46,
              user_ratings_total |-> 100]),
       Place(16,
             [name |-> << "I", "n", "n", " ", "J" >>,
              types |-> << << "l", "o", "d", "g", "i", "n", "g" >> >>,
              rating |-> 47,
              user_ratings_total |-> 100]),
       Place(17,
             [name |-> << "I", "n", "n", " ", "K" >>,
              types |-> << << "l", "o", "d", "g", "i", "n", "g" >> >>,
              rating |-> 48,
              user_ratings_total |-> 100]),
       Place(18,
             [name |-> << "I", "n", "n", " ", "L" >>,
              types |-> << << "l", "o", "d", "g", "i", "n", "g" >> >>,
              rating |-> 49,
              user_ratings_total |-> 100]),
       Place(19,
             [name |-> << "I", "n", "n", " ", "M" >>,
              types |-> << << "l", "o", "d", "g", "i", "n", "g" >> >>,
              rating |-> 50,
              user_ratings_total |-> 100]),
       Place(20,
             [name |-> << "I", "n", "n", " ", "O" >>,
              types |-> << << "l", "o", "d", "g", "i", "n", "g" >> >>,
              rating |-> 30,
              user_ratings_total |-> 9]) >>

\* what one places_nearby call may answer: results.get('results', [])
ProviderBatches == { <<>>, BatchRepeated, BatchMixed, BatchLarge }

\* the errors the provider client raises: the first two are permanent, the
\* last two transient
PermanentErrors == {"permission_denied", "invalid_request"}

TransientErrors == {"quota_exceeded", "network_failure"}

ProviderFailures == PermanentErrors \cup TransientErrors

\* Config.MAX_RESULTS
MAX_RESULTS == 10

\* a slip of lines 262-267: a later record with the same place_id replaces
\* the one kept
RECURSIVE unique_results_keep_last(_)
unique_results_keep_last(places) ==
    IF places = <<>> THEN <<>>
    ELSE LET place == places[Len(places)]
             before == unique_results_keep_last(SubSeq(places, 1, Len(places) - 1))
         IN IF "place_id" \notin DOMAIN place THEN before
            ELSE IF \E i \in DOMAIN before : before[i].place_id = place.place_id
                 THEN [i \in DOMAIN before |->
                          IF before[i].place_id = place.place_id THEN place
                          ELSE before[i]]
                 ELSE Append(before, place)

\* lines 262-267 and list(unique_results.values()): the records in the
\* order in which their place_id was first seen; a record without place_id
\* is left out (the ids of the model stand for non-empty strings)
RECURSIVE unique_results(_)
unique_results(places) ==
    IF places = <<>> THEN <<>>
    ELSE LET place == places[Len(places)]
             before == unique_results(SubSeq(places, 1, Len(places) - 1))
         IN IF "place_id" \notin DOMAIN place THEN before
            ELSE IF \E i \in DOMAIN before : before[i].place_id = place.place_id
                 THEN before
                 ELSE Append(before, place)

\* a slip of line 283: the slice is taken from the end
top_results_from_end(sorted_places) == LastK(sorted_places, MAX_RESULTS)

\* line 283: sorted_results[:Config.MAX_RESULTS]
top_results(sorted_places) == FirstK(sorted_places, MAX_RESULTS)

\* a slip of lines 180-181: the search goes on after an empty geocode result
EmptyGeocodeGoesOn == "loop"

\* lines 180-181: `if not geocode_result: return []`
EmptyGeocodeGoesTo == "returned"

\* a slip of lines 258-260: the exception ends the loop
NearbyFailureEndsLoop == "break"

\* lines 258-260: the exception of a places_nearby call is logged and the
\* loop continues with the next term
NearbyFailureGoesTo == "continue"

SearchInit ==
    /\ search_pc = "idle"
    /\ place_type = ""
    /\ geocode_result = "none"
    /\ query_index = 0
    /\ all_results = <<>>
    /\ nearby_log = <<>>
    /\ deduplicated = <<>>
    /\ filtered_results = <<>>
    /\ sorted_results = <<>>
    /\ search_out = <<>>
    /\ searches = 0

\* lines 172-183 and 285-287: geocode the location; no result ends the
\* search with [], and so does an exception, in the except clause of line
\* 285
SearchGeocode ==
    /\ search_pc \in {"idle", "returned"}
    /\ searches < MaxSearches
    /\ searches' = searches + 1
    /\ nearby_log' = <<>>
    /\ all_results' = <<>>
    /\ deduplicated' = <<>>
    /\ filtered_results' = <<>>
    /\ sorted_results' = <<>>
    /\ search_out' = <<>>
    /\ \E category \in PlaceTypes,
          geocode \in {"found", "empty"} \cup ProviderFailures :
          /\ place_type' = category
          /\ geocode_result' = geocode
          /\ IF geocode = "found"
             THEN /\ search_pc' = "loop"
                  /\ query_index' = 1
             ELSE IF geocode = "empty"
             THEN /\ search_pc' = EmptyGeocodeGoesTo
                  /\ query_index' = IF EmptyGeocodeGoesTo = "loop" THEN 1 ELSE 0
             ELSE /\ search_pc' = "returned"
                  /\ query_index' = 0

\* lines 250-283: one iteration of the loop over the query terms.  The call
\* goes straight to self.gmaps.places_nearby; an exception is logged and the
\* loop continues.  After the last term the accumulated places are
\* de-duplicated, filtered, sorted and cut to MAX_RESULTS, and returned.
SearchNearby ==
    /\ search_pc = "loop"
    /\ \E outcome \in {"ok"} \cup ProviderFailures, answer \in ProviderBatches :
          LET queries == search_queries(place_type)
              batch == IF outcome = "ok" THEN answer ELSE <<>>
              accumulated == all_results \o batch
              last == \/ query_index = Len(queries)
                      \/ outcome # "ok" /\ NearbyFailureGoesTo = "break"
              unique == unique_results(accumulated)
              filtered == filter_by_category(unique, place_type)
              sorted_places == sort_places_by_quality(filtered)
          IN /\ outcome # "ok" => answer = <<>>
             /\ nearby_log' = Append(nearby_log,
                                     [query |-> queries[query_index],
                                      acquired |-> Len(returns),
                                      outcome |-> outcome,
                                      batch |-> batch])
             /\ all_results' = accumulated
             /\ IF ~last
                THEN /\ query_index' = query_index + 1
                     /\ search_pc' = "loop"
                     /\ UNCHANGED <<deduplicated, filtered_results,
                                    sorted_results, search_out>>
                ELSE /\ query_index' = 0
                     /\ search_pc' = "returned"
                     /\ deduplicated' = unique
                     /\ filtered_results' = filtered
                     /\ sorted_results' = sorted_places
                     /\ search_out' = top_results(sorted_places)
    /\ UNCHANGED <<place_type, geocode_result, searches>>

NextSearch ==
    \/ SearchGeocode /\ UNCHANGED <<rlVars, appVars, llmVars, pureVars, otherVars>>
    \/ SearchNearby /\ UNCHANGED <<rlVars, appVars, llmVars, pureVars, otherVars>>

\* ------------------------------------------------------------------------
\* The standalone components: services/place_search_config.py,
\* services/place_filter.py, services/place_ranker.py
\* ------------------------------------------------------------------------
\* a slip of the last line of get_search_queries: no default
PlaceSearchConfig_get_search_queries_no_default(category) ==
    CASE category = "tourist_places" ->
           << "tourist_attraction", "museum", "park", "zoo",
              "amusement_park", "aquarium", "art_gallery", "hindu_temple",
              "natural_feature", "campground" >>
      [] category = "restaurants" ->
           << "restaurant", "meal_takeaway", "cafe", "bakery", "bar",
              "food" >>
      [] category = "activities" ->
           << "spa", "bowling_alley", "movie_theater", "night_club",
              "stadium", "tourist_attraction", "amusement_park", "park",
              "zoo", "aquarium", "casino", "movie_rental" >>
      [] category = "hotels" ->
           << "lodging", "campground", "rv_park" >>
      [] OTHER -> <<>>

\* PlaceSearchConfig.get_search_queries: search_queries.get(place_type,
\* [place_type])
PlaceSearchConfig_get_search_queries(category) ==
    CASE category = "tourist_places" ->
           << "tourist_attraction", "museum", "park", "zoo",
              "amusement_park", "aquarium", "art_gallery", "hindu_temple",
              "natural_feature", "campground" >>
      [] category = "restaurants" ->
           << "restaurant", "meal_takeaway", "cafe", "bakery", "bar",
              "food" >>
      [] category = "activities" ->
           << "spa", "bowling_alley", "movie_theater", "night_club",
              "stadium", "tourist_attraction", "amusement_park", "park",
              "zoo", "aquarium", "casino", "movie_rental" >>
      [] category = "hotels" ->
           << "lodging", "campground", "rv_park" >>
      [] OTHER -> << category >>

\* the keys of PlaceSearchConfig.get_category_filters()
PlaceSearchConfig_categories ==
    {"tourist_places", "restaurants", "activities", "hotels"}

\* PlaceSearchConfig.get_category_filters()[category]['include_keywords']
PlaceSearchConfig_include_keywords(category) ==
    CASE category = "tourist_places" ->
           << << "t", "o", "u", "r", "i", "s", "t" >>,
              << "a", "t", "t", "r", "a", "c", "t", "i", "o", "n" >>,
              << "m", "u", "s", "e", "u", "m" >>,
              << "p", "a", "r", "k" >>,
              << "t", "e", "m", "p", "l", "e" >>,
              << "c", "h", "u", "r", "c", "h" >>,
              << "m", "o", "n", "u", "m", "e", "n", "t" >>,
              << "h", "e", "r", "i", "t", "a", "g", "e" >>,
              << "s", "c", "e", "n", "i", "c" >>,
              << "v", "i", "e", "w", "p", "o", "i", "n", "t" >>,
              << "f", "o", "r", "t" >>,
              << "p", "a", "l", "a", "c", "e" >> >>
      [] category = "restaurants" ->
           << << "r", "e", "s", "t", "a", "u", "r", "a", "n", "t" >>,
              << "c", "a", "f", "e" >>,
              << "f", "o", "o", "d" >>,
              << "d", "i", "n", "i", "n", "g" >>,
              << "k", "i", "t", "c", "h", "e", "n" >>,
              << "b", "i", "s", "t", "r", "o" >>,
              << "e", "a", "t", "e", "r", "y" >>,
              << "c", "u", "i", "s", "i", "n", "e" >> >>
      [] category = "activities" ->
           << << "a", "c", "t", "i", "v", "i", "t", "y" >>,
              << "a", "d", "v", "e", "n", "t", "u", "r", "e" >>,
              << "s", "p", "o", "r", "t", "s" >>,
              << "r", "e", "c", "r", "e", "a", "t", "i", "o", "n" >>,
              << "e", "n", "t", "e", "r", "t", "a", "i", "n", "m", "e",
                 "n", "t" >>,
              << "c", "l", "u", "b" >>,
              << "c", "e", "n", "t", "e", "r" >>,
              << "s", "t", "u", "d", "i", "o" >> >>
      [] category = "hotels" ->
           << << "h", "o", "t", "e", "l" >>,
              << "r", "e", "s", "o", "r", "t" >>,
              << "l", "o", "d", "g", "e" >>,
              << "a", "c", "c", "o", "m", "m", "o", "d", "a", "t", "i",
                 "o", "n" >>,
              << "s", "t", "a", "y" >>,
              << "i", "n", "n" >>,
              << "g", "u", "e", "s", "t", " ", "h", "o", "u", "s", "e" >> >>

\* PlaceSearchConfig.get_category_filters()[category]['exclude_keywords']
PlaceSearchConfig_exclude_keywords(category) ==
    CASE category = "tourist_places" ->
           << << "r", "e", "s", "t", "a", "u", "r", "a", "n", "t" >>,
              << "h", "o", "t", "e", "l" >>,
              << "l", "o", "d", "g", "e" >>,
              << "f", "o", "o", "d" >>,
              << "c", "a", "f", "e" >>,
              << "b", "a", "r" >>,
              << "g", "y", "m" >>,
              << "h", "o", "s", "p", "i", "t", "a", "l" >>,
              << "b", "a", "n", "k" >>,
              << "u", "n", "i", "v", "e", "r", "s", "i", "t", "y" >>,
              << "t", "r", "a", "v", "e", "l", "_", "a", "g", "e", "n",
                 "c", "y" >> >>
      [] category = "restaurants" ->
           << << "h", "o", "t", "e", "l" >>,
              << "l", "o", "d", "g", "e" >>,
              << "h", "o", "s", "p", "i", "t", "a", "l" >>,
              << "g", "y", "m" >>,
              << "t", "e", "m", "p", "l", "e" >>,
              << "m", "u", "s", "e", "u", "m" >>,
              << "u", "n", "i", "v", "e", "r", "s", "i", "t", "y" >>,
              << "t", "r", "a", "v", "e", "l", "_", "a", "g", "e", "n",
                 "c", "y" >> >>
      [] category = "activities" ->
           << << "h", "o", "t", "e", "l" >>,
              << "r", "e", "s", "t", "a", "u", "r", "a", "n", "t" >>,
              << "s", "p", "a" >>,
              << "f", "o", "o", "d" >>,
              << "l", "o", "d", "g", "e" >>,
              << "h", "o", "s", "p", "i", "t", "a", "l" >>,
              << "b", "a", "n", "k" >>,
              << "u", "n", "i", "v", "e", "r", "s", "i", "t", "y" >>,
              << "h", "i", "n", "d", "u", "_", "t", "e", "m", "p", "l",
                 "e" >>,
              << "c", "h", "u", "r", "c", "h" >>,
              << "m", "o", "s", "q", "u", "e" >>,
              << "t", "r", "a", "v", "e", "l", "_", "a", "g", "e", "n",
                 "c", "y" >> >>
      [] category = "hotels" ->
           << << "r", "e", "s", "t", "a", "u", "r", "a", "n", "t" >>,
              << "c", "a", "f", "e" >>,
              << "f", "o", "o", "d" >>,
              << "h", "o", "s", "p", "i", "t", "a", "l" >>,
              << "g", "y", "m" >>,
              << "t", "e", "m", "p", "l", "e" >>,
              << "m", "u", "s", "e", "u", "m" >>,
              << "u", "n", "i", "v", "e", "r", "s", "i", "t", "y" >>,
              << "t", "r", "a", "v", "e", "l", "_", "a", "g", "e", "n",
                 "c", "y" >> >>

\* PlaceFilter._get_category_type_mapping().get(category, [])
PlaceFilter_get_category_type_mapping(category) ==
    CASE category = "tourist_places" ->
           << << "t", "o", "u", "r", "i", "s", "t", "_", "a", "t", "t",
                 "r", "a", "c", "t", "i", "o", "n" >>,
              << "m", "u", "s", "e", "u", "m" >>,
              << "p", "a", "r", "k" >>,
              << "z", "o", "o" >>,
              << "a", "m", "u", "s", "e", "m", "e", "n", "t", "_", "p",
                 "a", "r", "k" >>,
              << "a", "q", "u", "a", "r", "i", "u", "m" >>,
              << "a", "r", "t", "_", "g", "a", "l", "l", "e", "r", "y" >>,
              << "h", "i", "n", "d", "u", "_", "t", "e", "m", "p", "l",
                 "e" >>,
              << "n", "a", "t", "u", "r", "a", "l", "_", "f", "e", "a",
                 "t", "u", "r", "e" >>,
              << "c", "a", "m", "p", "g", "r", "o", "u", "n", "d" >> >>
      [] category = "restaurants" ->
           << << "r", "e", "s", "t", "a", "u", "r", "a", "n", "t" >>,
              << "m", "e", "a", "l", "_", "t", "a", "k", "e", "a", "w",
                 "a", "y" >>,
              << "c", "a", "f", "e" >>,
              << "b", "a", "k", "e", "r", "y" >>,
              << "b", "a", "r" >>,
              << "f", "o", "o", "d" >> >>
      [] category = "activities" ->
           << << "s", "p", "a" >>,
              << "b", "o", "w", "l", "i", "n", "g", "_", "a", "l", "l",
                 "e", "y" >>,
              << "m", "o", "v", "i", "e", "_", "t", "h", "e", "a", "t",
                 "e", "r" >>,
              << "n", "i", "g", "h", "t", "_", "c", "l", "u", "b" >>,
              << "s", "t", "a", "d", "i", "u", "m" >>,
              << "t", "o", "u", "r", "i", "s", "t", "_", "a", "t", "t",
                 "r", "a", "c", "t", "i", "o", "n" >>,
              << "a", "m", "u", "s", "e", "m", "e", "n", "t", "_", "p",
                 "a", "r", "k" >>,
              << "p", "a", "r", "k" >>,
              << "z", "o", "o" >>,
              << "a", "q", "u", "a", "r", "i", "u", "m" >>,
              << "c", "a", "s", "i", "n", "o" >>,
              << "m", "o", "v", "i", "e", "_", "r", "e", "n", "t", "a",
                 "l" >> >>
      [] category = "hotels" ->
           << << "l", "o", "d", "g", "i", "n", "g" >>,
              << "c", "a", "m", "p", "g", "r", "o", "u", "n", "d" >>,
              << "r", "v", "_", "p", "a", "r", "k" >> >>
      [] OTHER -> <<>>

\* place_filter.py lines 16-21: name, types and vicinity in lower case,
\* joined by blanks
PlaceFilter_combined_text(place) ==
    LET name == Lower(Get(place, "name", <<>>))
        types == Get(place, "types", <<>>)
        lowered == [i \in DOMAIN types |-> Lower(types[i])]
        vicinity == Lower(Get(place, "vicinity", <<>>))
    IN name \o << " " >> \o JoinWithSpace(lowered) \o << " " >> \o vicinity

\* place_filter.py lines 24-44: whether the loop body appends the place
PlaceFilter_keeps(place, category) ==
    LET text == PlaceFilter_combined_text(place)
        types == Get(place, "types", <<>>)
        lowered == [i \in DOMAIN types |-> Lower(types[i])]
        excluded == PlaceSearchConfig_exclude_keywords(category)
        included == PlaceSearchConfig_include_keywords(category)
        relevant_types == PlaceFilter_get_category_type_mapping(category)
    IN IF \E k \in DOMAIN excluded : Contains(text, excluded[k])
       THEN FALSE
       ELSE \/ \E k \in DOMAIN included : Contains(text, included[k])
            \/ \E k \in DOMAIN relevant_types :
                  \E i \in DOMAIN lowered : lowered[i] = relevant_types[k]
            \/ category = "tourist_places"
                  /\ Get(place, "rating", 0) >= 4 * RatingOne

\* PlaceFilter.filter_by_category(places, category,
\* PlaceSearchConfig().get_category_filters())
PlaceFilter_filter_by_category(places, category) ==
    IF category \notin PlaceSearchConfig_categories THEN places
    ELSE SelectSeq(places, LAMBDA place : PlaceFilter_keeps(place, category))

\* sort_key of PlaceRanker.sort_places_by_quality
PlaceRanker_sort_key(place) ==
    << 0 - PlaceRanker_calculate_score(place), 0 - Get(place, "rating", 0),
       0 - Get(place, "user_ratings_total", 0) >>

\* PlaceRanker.sort_places_by_quality: sorted(places, key=sort_key), which
\* is stable; the result is built by taking out, again and again, the first
\* place whose key no other place undercuts
RECURSIVE PlaceRanker_sort_places_by_quality(_)
PlaceRanker_sort_places_by_quality(places) ==
    IF places = <<>> THEN <<>>
    ELSE LET first == CHOOSE i \in DOMAIN places :
                         /\ \A j \in DOMAIN places :
                               ~ TupleLess(PlaceRanker_sort_key(places[j]),
                                           PlaceRanker_sort_key(places[i]))
                         /\ \A j \in 1..(i - 1) :
                               TupleLess(PlaceRanker_sort_key(places[i]),
                                         PlaceRanker_sort_key(places[j]))
             rest == [k \in 1..(Len(places) - 1) |->
                        IF k < first THEN places[k] ELSE places[k + 1]]
         IN << places[first] >> \o PlaceRanker_sort_places_by_quality(rest)

\* the places both copies are run on: those of the filter and five of the
\* ranker with ties in score and rating
EquivCatalog ==
    FilterCatalog \cup {place \in RankCatalog : place.place_id <= 5}

EquivInit ==
    /\ equiv_places = <<>>
    /\ equiv_call = "none"
    /\ equiv_category = ""
    /\ equiv_inline = <<>>
    /\ equiv_standalone = <<>>

\* the caller puts one more place on the list, before the next call
EquivCollect ==
    /\ Len(equiv_places) < MaxEquivLen
    /\ \E place \in EquivCatalog : equiv_places' = Append(equiv_places, place)
    /\ equiv_call' = "none"
    /\ equiv_category' = ""
    /\ equiv_inline' = <<>>
    /\ equiv_standalone' = <<>>

\* both filters are called with the same places and category
EquivFilter ==
    /\ equiv_call = "none"
    /\ \E category \in FilterCategories :
          /\ equiv_category' = category
          /\ equiv_inline' = filter_by_category(equiv_places, category)
          /\ equiv_standalone' = PlaceFilter_filter_by_category(equiv_places, category)
    /\ equiv_call' = "filter"
    /\ UNCHANGED equiv_places

\* both rankers are called with the same places
EquivSort ==
    /\ equiv_call = "none"
    /\ equiv_call' = "sort"
    /\ equiv_category' = ""
    /\ equiv_inline' = sort_places_by_quality(equiv_places)
    /\ equiv_standalone' = PlaceRanker_sort_places_by_quality(equiv_places)
    /\ UNCHANGED equiv_places

\* the query terms search_places iterates and those of get_search_queries
EquivQueries ==
    /\ equiv_call = "none"
    /\ \E category \in FilterCategories :
          /\ equiv_category' = category
          /\ equiv_inline' = search_queries(category)
          /\ equiv_standalone' = PlaceSearchConfig_get_search_queries(category)
    /\ equiv_call' = "queries"
    /\ UNCHANGED equiv_places

NextEquiv ==
    \/ EquivCollect /\ UNCHANGED <<rlVars, appVars, llmVars, searchVars, scoreVars, promptVars, tokenVars>>
    \/ EquivFilter /\ UNCHANGED <<rlVars, appVars, llmVars, searchVars, scoreVars, promptVars, tokenVars>>
    \/ EquivSort /\ UNCHANGED <<rlVars, appVars, llmVars, searchVars, scoreVars, promptVars, tokenVars>>
    \/ EquivQueries /\ UNCHANGED <<rlVars, appVars, llmVars, searchVars, scoreVars, promptVars, tokenVars>>


Init ==
    /\ RLInit /\ AppInit /\ LLMInit /\ SearchInit /\ RankInit /\ FilterInit
    /\ ScoreInit /\ TokenInit /\ EquivInit

SpecRL == Init /\ [][NextRL]_vars

SpecRLFair == Init /\ [][NextRL]_vars /\ RLFairness

SpecCtx == Init /\ [][NextCtx]_vars

SpecApp == Init /\ [][NextApp]_vars

SpecLLM == Init /\ [][NextLLM]_vars

SpecSearch == Init /\ [][NextSearch]_vars

SpecRank == Init /\ [][NextRank]_vars

SpecFilter == Init /\ [][NextFilter]_vars

SpecScore == Init /\ [][NextScore]_vars

SpecToken == Init /\ [][NextToken]_vars

SpecEquiv == Init /\ [][NextEquiv]_vars

\* ------------------------------------------------------------------------
\* C1, C2
\* ------------------------------------------------------------------------
\* number of returned calls in the window [returns[i].at, returns[i].at + w)
InWindow(i, w) ==
    Cardinality({j \in DOMAIN returns :
                    /\ returns[j].at >= returns[i].at
                    /\ returns[j].at < returns[i].at + w})

\* C1: in every sliding 1-second interval at most max_requests_per_second
\* calls of wait_if_needed return.
C1_PerSecondQuota ==
    \A i \in DOMAIN returns : InWindow(i, Second) <= MaxPerSecond

\* C2: in every sliding 24-hour interval at most max_requests_per_day calls
\* of wait_if_needed return.
C2_PerDayQuota ==
    \A i \in DOMAIN returns : InWindow(i, Day) <= MaxPerDay

\* ------------------------------------------------------------------------
\* C4, C6
\* ------------------------------------------------------------------------
\* C4: after any sequence of add_message and clear_history calls the log is
\* the last min(20, k) of the k messages recorded since the last clear, in
\* recording order; after 25 records its length is exactly 20.
C4_LogIsLastTwenty ==
    LET n == Len(conversation_history)
        k == Len(recorded)
    IN /\ n = Min(20, k)
       /\ \A i \in 1..n : conversation_history[i] = recorded[k - n + i]
       /\ k = 25 => n = 20

C4_Witness ==
    /\ Len(recorded) = 25
    /\ Len(conversation_history) = 20
    /\ conversation_history[1].content = 6

\* C6: get_context_messages returns the last min(10, n) messages of the
\* n-entry log in their order, reduced to role and content, and leaves the
\* log unchanged.
C6_ContextWindow ==
    [][last_op'.kind = "get_context_messages" =>
          LET n == Len(conversation_history)
              m == Min(10, n)
          IN /\ conversation_history' = conversation_history
             /\ Len(context_out') = m
             /\ \A i \in 1..m :
                   context_out'[i] =
                       [role |-> conversation_history[n - m + i].role,
                        content |-> conversation_history[n - m + i].content]
      ]_vars

C6_Witness ==
    /\ last_op.kind = "get_context_messages"
    /\ Len(conversation_history) = 20
    /\ Len(context_out) = 10
    /\ context_out[1].content = conversation_history[11].content
    /\ \E i \in DOMAIN conversation_history : conversation_history[i].metadata = "search"

\* ------------------------------------------------------------------------
\* C5, C7
\* ------------------------------------------------------------------------
\* C5: in every reachable state of the application the conversation history
\* has at most 20 entries and has been written through ContextManager only.
C5_HistoryBoundedAndOwned ==
    /\ Len(conversation_history) <= 20
    /\ writers \subseteq {"ContextManager"}

\* the question equals, trimmed and case-folded, the most recent user
\* message of the history
DuplicatesLastUserMessage(h, question) ==
    \E i \in DOMAIN h :
        /\ h[i].role = "user"
        /\ \A j \in DOMAIN h : j > i => h[j].role # "user"
        /\ Lower(Strip(h[i].content)) = Lower(Strip(question))

\* C7: a follow-up question that duplicates the most recent user message
\* makes the handler return without calling the LLM and without appending
\* to the history.
C7_DuplicateSuppressed ==
    [][(/\ last_op'.kind = "follow_up"
        /\ DuplicatesLastUserMessage(conversation_history, last_op'.question))
       => (/\ ~last_op'.llm
           /\ conversation_history' = conversation_history)
      ]_vars

\* ------------------------------------------------------------------------
\* C8, C9, C10
\* ------------------------------------------------------------------------
\* C8: when the chat-completion call fails with an authentication error the
\* request forces one credential refresh and calls the provider a second
\* time; the authentication apology is returned only if the retry fails
\* with an authentication error too.
C8_AuthRetriedOnce ==
    (/\ gen_pc = "returned"
     /\ gen_errors # <<>>
     /\ IsAuthError(gen_errors[1]))
    => /\ llm_calls = 2
       /\ forced_refreshes = 1
       /\ gen_result = AuthApology =>
             (Len(gen_errors) = 2 /\ IsAuthError(gen_errors[2]))

\* C9: generate_travel_recommendations never raises for a provider-side
\* failure; every request that has ended has returned a text.
C9_NeverRaises ==
    /\ gen_pc # "raised"
    /\ gen_pc = "returned" =>
          gen_result \in {ProviderText, AuthApology, UnexpectedApology}
                         \cup {ErrorApology(e) : e \in ProviderErrors \cup {TokenFailure}}

C9_Witness ==
    /\ gen_pc = "returned"
    /\ token_posts = 1
    /\ llm_calls = 0
    /\ gen_result = ErrorApology(TokenFailure)

\* C10: when the chat-completion call fails with an error that is not an
\* authentication error, the provider has been called exactly once for the
\* request and the returned apology contains the text of the error.
C10_NoRetryOnOtherErrors ==
    (/\ gen_pc = "returned"
     /\ gen_errors # <<>>
     /\ ~IsAuthError(gen_errors[1]))
    => /\ llm_calls = 1
       /\ Contains(gen_result, gen_errors[1])
       /\ gen_result # gen_errors[1]

C10_Witness ==
    /\ gen_pc = "returned"
    /\ gen_errors # <<>>
    /\ ~IsAuthError(gen_errors[1])
    /\ llm_calls = 1
    /\ Len(gen_result) > Len(gen_errors[1])

\* ------------------------------------------------------------------------
\* C3
\* ------------------------------------------------------------------------
\* C3: every places_nearby call of a search is sent after a wait_if_needed
\* call made for it has returned: the k-th call sent has at least k
\* returned acquires before it.
C3_NearbyCallsGated ==
    \A k \in DOMAIN nearby_log : nearby_log[k].acquired >= k

\* ------------------------------------------------------------------------
\* C19, C20
\* ------------------------------------------------------------------------
\* the places of a list whose (score, rating, review count) is k, in order
WithRank(places, k) ==
    SelectSeq(places, LAMBDA q :
        << rank_scores[CHOOSE i \in DOMAIN rank_in : rank_in[i] = q],
           Get(q, "rating", 0), Get(q, "user_ratings_total", 0) >> = k)

\* the (score, rating, review count) of the place at position i of rank_out
RankOf(i) ==
    << rank_scores[CHOOSE j \in DOMAIN rank_in : rank_in[j] = rank_out[i]],
       Get(rank_out[i], "rating", 0), Get(rank_out[i], "user_ratings_total", 0) >>

\* C19: the ranker returns a permutation of its input in descending order
\* of (score, rating, review count), each field breaking the ties of the
\* one before; places that tie on all three keep their input order; and
\* sorting the result again returns it unchanged.
C19_RankOrderStableIdempotent ==
    rank_pc = "sorted" =>
    /\ Len(rank_out) = Len(rank_in)
    /\ \A q \in RankCatalog :
          Cardinality({i \in DOMAIN rank_out : rank_out[i] = q})
             = Cardinality({i \in DOMAIN rank_in : rank_in[i] = q})
    /\ \A i \in 1..(Len(rank_out) - 1) :
          LET a == RankOf(i)
              b == RankOf(i + 1)
          IN \/ a[1] > b[1]
             \/ a[1] = b[1] /\ a[2] > b[2]
             \/ a[1] = b[1] /\ a[2] = b[2] /\ a[3] >= b[3]
    /\ \A i \in DOMAIN rank_out :
          WithRank(rank_out, RankOf(i)) = WithRank(rank_in, RankOf(i))
    /\ sort_places_by_quality(rank_out) = rank_out

\* a list that is reordered: places 5 and 4 tie on all three fields and
\* keep their input order, places 2 and 1 tie on the score and the higher
\* rating goes first
C19_Witness ==
    /\ rank_pc = "sorted"
    /\ [i \in DOMAIN rank_in |-> rank_in[i].place_id] = <<1, 5, 2, 4>>
    /\ [i \in DOMAIN rank_out |-> rank_out[i].place_id] = <<5, 4, 2, 1>>
    /\ rank_scores[1] = rank_scores[3]
    /\ rank_scores[2] = rank_scores[4]

\* C20: the credibility factor is 0.5 below 50 reviews (an absent count is
\* 0), 0.75 from 50 to 99 and 1.0 from 100, and the score is
\* (rating * 2 + popularity bonus) times that factor.
C20_CredibilityFactor ==
    rank_pc = "sorted" => \A i \in DOMAIN rank_in :
        LET n == Get(rank_in[i], "user_ratings_total", 0)
            r == Get(rank_in[i], "rating", 0)
            quarters == IF n < 50 THEN 2 ELSE IF n < 100 THEN 3 ELSE 4
            bonus == IF n > 0 THEN Min(Log10Twice(n + 1), 5000000) ELSE 0
        IN rank_scores[i] = (r * 200000 + bonus) * quarters

\* 49 and 50 reviews, and an absent count, scored in one call
C20_Witness ==
    /\ rank_pc = "sorted"
    /\ Len(rank_in) = 3
    /\ rank_in[1].place_id = 7 /\ rank_scores[1] = (8000000 + 3397940) * 2
    /\ rank_in[2].place_id = 8 /\ rank_scores[2] = (8000000 + 3415140) * 3
    /\ rank_in[3].place_id = 2 /\ rank_scores[3] = 10000000 * 2

\* ------------------------------------------------------------------------
\* C17, C18
\* ------------------------------------------------------------------------
\* the lower-case text of a place: name, types and vicinity
TextOf(place) ==
    Lower(Get(place, "name", <<>>)) \o << " " >>
       \o JoinWithSpace([i \in DOMAIN Get(place, "types", <<>>) |->
                            Lower(Get(place, "types", <<>>)[i])])
       \o << " " >> \o Lower(Get(place, "vicinity", <<>>))

\* the text of the place contains one of the keywords
HasKeyword(place, keywords) ==
    LET text == TextOf(place)
    IN \E k \in DOMAIN keywords : Contains(text, keywords[k])

\* C17: for a configured category the filter returns no place whose text
\* contains an exclude keyword of the category, whatever else the place
\* matches.
C17_ExcludeWins ==
    (filter_pc = "filtered" /\ filter_category \in ConfiguredCategories) =>
       \A i \in DOMAIN filter_out :
           ~HasKeyword(filter_out[i], exclude_keywords(filter_category))

\* a place of type 'spa' is filtered for 'activities' and rejected, beside a
\* place that is kept
C17_Witness ==
    /\ filter_pc = "filtered"
    /\ filter_category = "activities"
    /\ [i \in DOMAIN filter_in |-> filter_in[i].place_id] = <<7, 2>>
    /\ [i \in DOMAIN filter_out |-> filter_out[i].place_id] = <<7>>

\* the place is to be kept for the category: no exclude keyword, and an
\* include keyword, a relevant type, or (tourist_places) a rating of 4.0
Accepted(place, category) ==
    /\ ~HasKeyword(place, exclude_keywords(category))
    /\ \/ HasKeyword(place, include_keywords(category))
       \/ \E t \in DOMAIN Get(place, "types", <<>>) :
             \E k \in DOMAIN category_type_mapping(category) :
                Lower(Get(place, "types", <<>>)[t]) = category_type_mapping(category)[k]
       \/ category = "tourist_places" /\ Get(place, "rating", 0) >= 40

\* C18: for a configured category the filter returns the places of its
\* input that are to be kept, in input order, and no other; for a category
\* without configuration it returns its input.
C18_FilterIsSubsequence ==
    filter_pc = "filtered" =>
       IF filter_category \in ConfiguredCategories
       THEN filter_out = SelectSeq(filter_in, LAMBDA q : Accepted(q, filter_category))
       ELSE filter_out = filter_in

\* tourist_places: a place kept for its rating alone, one rejected for its
\* rating below 4.0, one kept for an include keyword, in input order
C18_Witness ==
    /\ filter_pc = "filtered"
    /\ filter_category = "tourist_places"
    /\ [i \in DOMAIN filter_in |-> filter_in[i].place_id] = <<4, 5, 3>>
    /\ [i \in DOMAIN filter_out |-> filter_out[i].place_id] = <<4, 3>>

\* ------------------------------------------------------------------------
\* C11, C12, C13, C16
\* ------------------------------------------------------------------------
\* a search that got past the geocode call has ended
SearchEnded == search_pc = "returned" /\ geocode_result = "found"

\* C11: a permanent provider error raised by the geocode call or by a
\* places_nearby call leaves search_places as an exception: no search in
\* which one occurred ends by returning.
C11_PermanentErrorsPropagate ==
    search_pc = "returned" =>
       /\ geocode_result \notin PermanentErrors
       /\ \A k \in DOMAIN nearby_log : nearby_log[k].outcome \notin PermanentErrors

\* C12: a places_nearby call that fails with a transient error is retried:
\* when the search has ended, the term of such a call has been sent to the
\* provider at least twice.
C12_TransientErrorsRetried ==
    SearchEnded =>
       \A k \in DOMAIN nearby_log :
           nearby_log[k].outcome \in TransientErrors =>
              Cardinality({j \in DOMAIN nearby_log :
                              nearby_log[j].query = nearby_log[k].query}) >= 2

\* the answers of the calls of the log, one after the other
RECURSIVE AnswersOf(_)
AnswersOf(log) ==
    IF log = <<>> THEN <<>>
    ELSE (IF Head(log).outcome = "ok" THEN Head(log).batch ELSE <<>>)
            \o AnswersOf(Tail(log))

\* C13: a failed places_nearby call does not end the search: the terms are
\* queried one after the other, each once, whatever failed before, and the
\* places of the calls that succeeded are all accumulated and
\* de-duplicated.
C13_FailedTermSkipped ==
    geocode_result = "found" =>
       /\ [k \in DOMAIN nearby_log |-> nearby_log[k].query]
             = SubSeq(search_queries(place_type), 1, Len(nearby_log))
       /\ all_results = AnswersOf(nearby_log)
       /\ search_pc = "returned" =>
             /\ Len(nearby_log) = Len(search_queries(place_type))
             /\ \A i \in DOMAIN all_results :
                   "place_id" \in DOMAIN all_results[i] =>
                      \E j \in DOMAIN deduplicated :
                         deduplicated[j].place_id = all_results[i].place_id

\* the first term of a hotels search fails, the second and the third are
\* queried all the same, and the places of the second are returned
C13_Witness ==
    /\ SearchEnded
    /\ place_type = "hotels"
    /\ Len(nearby_log) = 3
    /\ nearby_log[1].outcome = "network_failure"
    /\ nearby_log[2].outcome = "ok" /\ nearby_log[2].batch = BatchRepeated
    /\ nearby_log[3].outcome = "invalid_request"
    /\ Len(search_out) = 2

\* C16: when the geocode call yields no result, search_places returns the
\* empty list and has sent no places_nearby call.
C16_EmptyGeocodeReturnsEmpty ==
    geocode_result = "empty" =>
       /\ search_pc = "returned"
       /\ search_out = <<>>
       /\ nearby_log = <<>>

\* a second search whose location is not found
C16_Witness ==
    /\ geocode_result = "empty"
    /\ search_pc = "returned"
    /\ searches = 2
    /\ search_out = <<>>

\* ------------------------------------------------------------------------
\* C14, C15
\* ------------------------------------------------------------------------
\* C14: for every place_id among the accumulated places, exactly one record
\* with that place_id goes on to the filter, and it is the first one
\* accumulated, whatever the later ones carry.
C14_FirstRecordKept ==
    SearchEnded =>
       \A i \in DOMAIN all_results :
           "place_id" \in DOMAIN all_results[i] =>
              LET id == all_results[i].place_id
                  first == CHOOSE j \in DOMAIN all_results :
                              /\ "place_id" \in DOMAIN all_results[j]
                              /\ all_results[j].place_id = id
                              /\ \A h \in 1..(j - 1) :
                                    "place_id" \in DOMAIN all_results[h] =>
                                       all_results[h].place_id # id
                  kept == {j \in DOMAIN deduplicated : deduplicated[j].place_id = id}
              IN /\ Cardinality(kept) = 1
                 /\ \A j \in kept : deduplicated[j] = all_results[first]

\* place_id 1 comes twice in one answer and place_id 2 in two answers, with
\* different payloads; the first record of each is the one kept
C14_Witness ==
    /\ SearchEnded
    /\ place_type = "hotels"
    /\ all_results = BatchRepeated \o BatchMixed
    /\ [j \in DOMAIN deduplicated |-> deduplicated[j].place_id] = <<1, 2, 3, 4>>
    /\ deduplicated[1] = BatchRepeated[1]
    /\ deduplicated[2] = BatchRepeated[2]

\* place a ranks strictly above place b: by score, then rating, then
\* review count
RanksAbove(a, b) ==
    LET sa == calculate_score(a)
        sb == calculate_score(b)
        ra == Get(a, "rating", 0)
        rb == Get(b, "rating", 0)
        ca == Get(a, "user_ratings_total", 0)
        cb == Get(b, "user_ratings_total", 0)
    IN \/ sa > sb
       \/ sa = sb /\ ra > rb
       \/ sa = sb /\ ra = rb /\ ca > cb

\* C15: search_places returns at most 10 places, the first min(10, n) of
\* the ranked order of the n places that passed the filter: no place that
\* passed and is not returned ranks strictly above a returned one.
C15_TopTenReturned ==
    SearchEnded =>
       /\ Len(search_out) = Min(10, Len(filtered_results))
       /\ search_out = SubSeq(sorted_results, 1, Len(search_out))
       /\ Len(sorted_results) = Len(filtered_results)
       /\ \A i \in DOMAIN filtered_results :
             (\A j \in DOMAIN search_out : search_out[j] # filtered_results[i]) =>
                \A j \in DOMAIN search_out :
                   ~RanksAbove(filtered_results[i], search_out[j])
       /\ \A j \in DOMAIN search_out :
             \E i \in DOMAIN filtered_results : filtered_results[i] = search_out[j]

\* more than 10 places pass the filter and 10 are returned
C15_Witness ==
    /\ SearchEnded
    /\ place_type = "hotels"
    /\ Len(filtered_results) = 13
    /\ Len(search_out) = 10
    /\ \A j \in DOMAIN search_out : search_out[j].place_id # 21

\* ------------------------------------------------------------------------
\* C21
\* ------------------------------------------------------------------------
RatingOf(place) == Get(place, "rating", 0)

ReviewsOf(place) == Get(place, "user_ratings_total", 0)

\* C21: of two scored places with the same review count the one with the
\* higher rating never has the lower score, and of two scored places with
\* the same rating the one with more reviews never has the lower score;
\* this holds of PlaceRanker.calculate_score and of the copy in
\* GooglePlacesService
C21_ScoreMonotone ==
    \A i, j \in DOMAIN score_in :
        LET a == score_in[i]
            b == score_in[j]
        IN ( \/ ReviewsOf(a) = ReviewsOf(b) /\ RatingOf(a) <= RatingOf(b)
             \/ RatingOf(a) = RatingOf(b) /\ ReviewsOf(a) <= ReviewsOf(b) )
           => /\ score_out[i] <= score_out[j]
              /\ score_ranker[i] <= score_ranker[j]

\* two places of rating 4.0 scored on both sides of a threshold
C21_Witness ==
    /\ Len(score_in) = 2
    /\ RatingOf(score_in[1]) = 40 /\ RatingOf(score_in[2]) = 40
    /\ \/ ReviewsOf(score_in[1]) = 49 /\ ReviewsOf(score_in[2]) = 50
       \/ ReviewsOf(score_in[1]) = 99 /\ ReviewsOf(score_in[2]) = 100
    /\ score_out[1] < score_out[2]
    /\ score_ranker[1] < score_ranker[2]

\* ------------------------------------------------------------------------
\* C22
\* ------------------------------------------------------------------------
\* C22: every message list handed to chat.completions.create is the system
\* message, then the last ten messages of the supplied context (all of them
\* when there are fewer) in their order, then the user prompt; it has
\* between 2 and 12 messages
C22_MessageSequence ==
    \A k \in DOMAIN sent :
        LET m == sent[k]
            n == Len(context_history)
            kept == IF n < 10 THEN n ELSE 10
        IN /\ Len(m) = kept + 2
           /\ Len(m) >= 2 /\ Len(m) <= 12
           /\ m[1] = [role |-> "system", content |-> "system_prompt"]
           /\ m[Len(m)] = [role |-> "user", content |-> "user_prompt"]
           /\ \A i \in 1..kept : m[1 + i] = context_history[n - kept + i]

\* a request with more than ten context messages has reached the provider
C22_Witness ==
    /\ Len(context_history) > 10
    /\ Len(sent) >= 1
    /\ Len(sent[1]) = 12

\* ------------------------------------------------------------------------
\* C23, C24, C25
\* ------------------------------------------------------------------------
\* C23: every call of wait_if_needed returns in the end, whichever thread
\* makes it and however many threads wait for the lock (no thread stays
\* inside the call for ever: it is outside of it again and again); the step
\* in which a call returns appends one timestamp to the per-second queue and the
\* same timestamp to the per-day queue, and no other step lengthens either
\* queue
C23_EveryCallReturns ==
    /\ \A t \in Threads : []<>(pc[t] = "idle")
    /\ [][ IF Len(returns') = Len(returns) + 1
           THEN LET ts == requests_per_second'[Len(requests_per_second')]
                IN /\ requests_per_second' = Append(requests_per_second, ts)
                   /\ requests_per_day' = Append(requests_per_day, ts)
           ELSE /\ returns' = returns
                /\ Len(requests_per_second') <= Len(requests_per_second)
                /\ Len(requests_per_day') <= Len(requests_per_day) ]_vars

\* a call that waited for the lock while another thread slept in the
\* limiter has returned
C23_Witness ==
    /\ Len(returns) >= MaxPerSecond + 2
    /\ returns[MaxPerSecond + 1].slept > 0
    /\ \A t \in Threads : pc[t] = "idle"

C25_QueuesBounded ==
    lock = 0 =>
        /\ Len(requests_per_second) <= MaxPerSecond
        /\ Len(requests_per_day) <= MaxPerDay

\* ------------------------------------------------------------------------
\* C26
\* ------------------------------------------------------------------------
\* C26 as stated: the window returned by get_context_messages has at most
\* 10 messages, and the log has at least 10 and at most 20
C26_AsStated ==
    /\ last_op.kind = "get_context_messages" => Len(context_out) <= 10
    /\ 10 <= Len(conversation_history)
    /\ Len(conversation_history) <= 20

\* C26, amended: the log has at most 20 messages, and the window returned
\* by get_context_messages has 10 messages when the log has 10 or more and
\* as many as the log otherwise
C26_WindowWithinLog ==
    /\ Len(conversation_history) <= 20
    /\ last_op.kind = "get_context_messages" =>
           /\ Len(context_out) <= 10
           /\ Len(context_out) <= Len(conversation_history)
           /\ Len(conversation_history) >= 10 => Len(context_out) = 10
           /\ Len(conversation_history) < 10 =>
                  Len(context_out) = Len(conversation_history)

\* the window has been read from a log shorter than 10 messages and from
\* a log cut to 20
C26_Witness ==
    /\ last_op.kind = "get_context_messages"
    /\ \/ Len(recorded) = 3 /\ Len(context_out) = 3
       \/ Len(recorded) > 20 /\ Len(context_out) = 10

\* ------------------------------------------------------------------------
\* C27, C28
\* ------------------------------------------------------------------------
\* the history begins with the two messages of the initial search
BeginsWithSearch(h) ==
    /\ Len(h) >= 2
    /\ h[1].role = "user" /\ h[1].id = "search_user"
    /\ h[2].role = "assistant" /\ h[2].id = "search_assistant"

\* C27: ChatHandler._handle_clear_chat and the sidebar button "Clear
\* History", run on a history that begins with the two messages of the
\* initial search, leave exactly these two messages
C27_ClearKeepsInitialSearch ==
    [][ ( /\ last_op'.kind \in {"clear_chat", "clear_history_button"}
          /\ BeginsWithSearch(conversation_history) )
        => conversation_history' = FirstK(conversation_history, 2) ]_vars

\* the last four entries of h are user q, assistant a, user q, assistant a
EndsWithTwice(h, q) ==
    LET n == Len(h)
    IN /\ n >= 4
       /\ h[n - 3].role = "user" /\ h[n - 3].content = q
       /\ h[n - 2].role = "assistant"
       /\ h[n - 1].role = "user" /\ h[n - 1].content = q
       /\ h[n].role = "assistant" /\ h[n].content = h[n - 2].content

\* a follow-up question that was answered by the LLM
Answered(op) == op.kind = "follow_up" /\ op.llm

\* C28: right after a follow-up question q was answered with a, the last
\* four entries of the history are user q, assistant a, user q, assistant
\* a; and when the next thing the user does is another answered question,
\* the context window sent with it ends with these four entries
C28_AnswerRecordedTwice ==
    /\ [](Answered(last_op) => EndsWithTwice(conversation_history, last_op.question))
    /\ [][ (Answered(last_op) /\ Answered(last_op'))
              => EndsWithTwice(context_out', last_op.question) ]_vars

\* two follow-up questions have been answered one after the other, and the
\* context of the second held the first one twice
C28_Witness ==
    /\ Answered(last_op)
    /\ Len(conversation_history) >= 10
    /\ EndsWithTwice(conversation_history, last_op.question)
    /\ Len(context_out) >= 6
    /\ context_out[Len(context_out)].role = "assistant"
    /\ context_out[Len(context_out) - 1].content
          = context_out[Len(context_out) - 3].content
    /\ context_out[Len(context_out) - 1].content # last_op.question

\* ------------------------------------------------------------------------
\* C29
\* ------------------------------------------------------------------------
\* the call made a POST that succeeded with a lifetime above the buffer
Refreshed(entry) == entry.posted > 300

\* the later call was made while the cache was expired and still held the
\* token that the earlier call replaced
CalledBeforeRefresh(later, earlier) ==
    /\ later.seen.expired
    /\ later.seen.access_token = earlier.checked.access_token

\* every call that made a POST found now >= expires_at under the lock
PostOnlyWhenExpired ==
    \A i \in DOMAIN token_log :
        token_log[i].posted # 0
           => token_log[i].checked.at >= token_log[i].checked.expires_at

\* C29 as stated: a POST is made only when the cached token is expired;
\* and of the calls made while it is expired, once one has refreshed it
\* with a lifetime above the buffer, the others make no POST and return
\* the token the first one returned
C29_AsStated ==
    /\ PostOnlyWhenExpired
    /\ \A i, j \in DOMAIN token_log :
          ( /\ i < j
            /\ Refreshed(token_log[i])
            /\ CalledBeforeRefresh(token_log[j], token_log[i]) )
          => /\ token_log[j].posted = 0
             /\ token_log[j].result = token_log[i].result

\* C29, amended: the same, for the calls that take the lock before the new
\* token has reached its expires_at
C29_OneRefreshWhileTokenLives ==
    /\ PostOnlyWhenExpired
    /\ \A i, j \in DOMAIN token_log :
          ( /\ i < j
            /\ Refreshed(token_log[i])
            /\ CalledBeforeRefresh(token_log[j], token_log[i])
            /\ token_log[j].checked.at < token_log[i].expires_at )
          => /\ token_log[j].posted = 0
             /\ token_log[j].result = token_log[i].result

\* two threads called while the token was expired; one refreshed it and the
\* other returned the same token without a POST
C29_Witness ==
    /\ Len(token_log) >= 2
    /\ Refreshed(token_log[1])
    /\ CalledBeforeRefresh(token_log[2], token_log[1])
    /\ token_log[2].thread # token_log[1].thread
    /\ token_log[2].posted = 0
    /\ token_log[2].result = token_log[1].result

\* ------------------------------------------------------------------------
\* C30
\* ------------------------------------------------------------------------
\* C30: called with the same places and the same category, PlaceFilter
\* with the filters of PlaceSearchConfig and GooglePlacesService's own
\* filter return the same sequence, PlaceRanker and GooglePlacesService's
\* own ranker return the same order, and get_search_queries returns the
\* query terms that search_places iterates
C30_CopiesAgree ==
    equiv_call # "none" => equiv_standalone = equiv_inline

\* both filters were given two places and kept one of them
C30_Witness ==
    /\ equiv_call = "filter"
    /\ Len(equiv_places) = 2
    /\ Len(equiv_standalone) = 1
    /\ Len(equiv_inline) = 1

====
